---- MODULE Spec2Model ----
(***************************************************************************)
(* Reeva: Instagram DM ingestion and outbound delivery.                    *)
(*                                                                         *)
(* The model follows src/lib/instagram/utils.ts (store adapters, token     *)
(* service, outbound delivery with retry), the ingestion orchestrator      *)
(* handleIncomingMessagingEvent, src/lib/instagram/store-media.ts and the  *)
(* route src/app/api/internal/send-dm/route.ts.  Every await of the code   *)
(* (a store query or a platform call) is one atomic step of the invocation *)
(* that performs it; invocations interleave at those points only.          *)
(***************************************************************************)
EXTENDS Integers, Sequences, FiniteSets, TLC

\* ---------------------------------------------------------------- bounds
\* Total number of invocations (handle or send-dm) started in one behaviour.
MaxInvocations == 2
\* Total number of store calls the backing store rejects in one behaviour.
MaxFaults == 1
\* Total number of send calls the Instagram API rejects in one behaviour.
MaxSendFailures == 3
\* Number of times the queue delivers its message to the consumer endpoint.
MaxDeliveries == 3
\* Total number of webhook requests in one behaviour, one after the other.
MaxWebhooks == 2
\* Largest number of elements of a messaging array in a webhook payload.
MaxMessaging == 2
\* Total number of verify-instagram requests started in one behaviour.
MaxVerifications == 2
\* Number of times the clock advances in one behaviour.
MaxTicks == 3
\* the longest event.attachments array handed to the extraction
MaxAttachments == 2

\* Concurrently running request handlers (stateless serverless invocations).
Procs == {1, 2}

NULL == "null"

IgIds == {"u1", "u2"}
Mids == {"m1", "m2"}

\* ------------------------------------------------------ program constants
\* const maxAttempts = 3
maxAttemptsTwo == 3 - 1
maxAttempts == 3
\* Math.min(1000 * Math.pow(2, attempt - 1), 10000)
BaseDelayMs == 1000
MaxDelayMs == 10000
\* expiresAt.setHours(expiresAt.getHours() + 1)
TokenTtlMs == 60 * 60 * 1000
\* The clock is observed every half token lifetime.
TickMs == TokenTtlMs \div 2

RECURSIVE Pow2(_)
Pow2(n) == IF n = 0 THEN 1 ELSE 2 * Pow2(n - 1)

Min(a, b) == IF a < b THEN a ELSE b

BackoffDelayDoubled(attempt) == Min(BaseDelayMs * Pow2(attempt), MaxDelayMs)
BackoffDelay(attempt) == Min(BaseDelayMs * Pow2(attempt - 1), MaxDelayMs)

\* ------------------------------------------------------------ the events
\* One element of event.attachments: a JSON null (isNull), or a value whose
\* fields are read; a field the platform did not send is NULL, and so is
\* every field of an element that is a string or a number.
ReelAttachment(id) ==
    [isNull |-> FALSE, type |-> "ig_reel", hasPayload |-> TRUE,
     payload |-> [reel_video_id |-> id, ig_post_media_id |-> NULL,
                  url |-> "url", title |-> NULL]]

PostAttachment(id) ==
    [isNull |-> FALSE, type |-> "ig_post", hasPayload |-> TRUE,
     payload |-> [reel_video_id |-> NULL, ig_post_media_id |-> id,
                  url |-> "url", title |-> "t"]]

NoPayload ==
    [reel_video_id |-> NULL, ig_post_media_id |-> NULL, url |-> NULL,
     title |-> NULL]

\* An element that is the JSON null.
NullAttachment ==
    [isNull |-> TRUE, type |-> NULL, hasPayload |-> FALSE,
     payload |-> NoPayload]

\* event.attachments: an array of attachments, or absent
Attachments(items) == [isArray |-> TRUE, items |-> items]

NoAttachments == [isArray |-> FALSE, items |-> <<>>]

\* ------------------------------------------------- event.timestamp
\* The text of a timestamp: the decimal digits of `lead` followed by `zeros`
\* zeros and then by `tail`, characters that are no digits.  A text that
\* does not start with a digit has lead = NaN.  Instants are multiples of
\* 10^9 ms, or too small to matter, so that they can be counted in units of
\* 10^9 ms (GigaMs) without loss.
NaN == 0 - 1

TimestampText(lead, zeros, tail) ==
    [lead |-> lead, zeros |-> zeros, tail |-> tail]

\* String(timestamp).trim().length: one to four digits of lead, the zeros,
\* and the tail ("timeout" has 7 characters, any other tail here 3).
TextLength(text) ==
    LET DigitCount(n) ==
            IF n < 10 THEN 1 ELSE IF n < 100 THEN 2
            ELSE IF n < 1000 THEN 3 ELSE 4
        TailLength(tail) ==
            IF tail = "" THEN 0 ELSE IF tail = "timeout" THEN 7 ELSE 3
    IN (IF text.lead = NaN THEN 0
        ELSE DigitCount(text.lead) + text.zeros)
       + TailLength(text.tail)

\* const isMilliseconds = timestampStr.length >= 13
MillisecondsDigits == 13

\* parseInt(timestampStr, 10), times 1000 for a text taken as seconds:
\* the number lead * 10^zeros, kept as the pair.
TimestampMs(text) ==
    LET isMilliseconds == TextLength(text) >= MillisecondsDigits IN
    IF text.lead = NaN THEN [lead |-> NaN, zeros |-> 0]
    ELSE IF isMilliseconds
    THEN [lead |-> text.lead, zeros |-> text.zeros]
    ELSE [lead |-> text.lead, zeros |-> text.zeros + 3]

\* A number of milliseconds in units of 10^9 ms.
GigaMs(ms) ==
    IF ms.zeros >= 9 THEN ms.lead * (10 ^ (ms.zeros - 9))
    ELSE ms.lead \div (10 ^ (9 - ms.zeros))

\* The validation of insertMessageIfNotExists: "ok", or what is thrown.
\* new Date(timestampMs) is an Invalid Date for NaN and beyond 8.64e15 ms;
\* for it the RangeError of date.toISOString() is thrown, which is
\* evaluated for the log entry before the Error is constructed.
\* date.getFullYear() < 2020 and date.getFullYear() > 2100 are taken on a
\* server whose time zone is UTC: 2020 begins at 1577836800000 ms and 2100
\* ends before 4133980800000 ms.
TimestampCheck(text) ==
    LET date == TimestampMs(text)
        isInvalidDate == date.lead = NaN \/ GigaMs(date) > 8640000
        yearOutOfRange == GigaMs(date) < 1578 \/ GigaMs(date) > 4133
    IN IF isInvalidDate THEN "Invalid time value"
       ELSE IF yearOutOfRange THEN "Invalid timestamp"
       ELSE "ok"

\* received_at: new Date(timestampMs).toISOString(), the instant itself.
ReceivedAt(text) == GigaMs(TimestampMs(text))

\* No timestamp: the local before the event is known, the field of a body
\* that has none.
NoTimestamp == TimestampText(NaN, 0, "")

\* What the validation throws: the RangeError "Invalid time value", or
\* new Error(`Invalid timestamp: ${timestamp} (converted to ...ms)`), whose
\* message repeats the text of the timestamp and with it the markers of
\* isRetryableError that the text contains.
TimestampError(text) ==
    LET markersIn == IF text.tail = "timeout" THEN {"timeout"} ELSE {} IN
    IF TimestampCheck(text) = "Invalid time value"
    THEN [name |-> "RangeError", hasMessage |-> TRUE,
          message |-> {"Invalid"}]
    ELSE [name |-> "Error", hasMessage |-> TRUE,
          message |-> {"Invalid"} \cup markersIn]

\* 1700000000 (seconds) and 1700000000000 (milliseconds): the same instant
\* in November 2023.
SecondsText == TimestampText(1700, 6, "")
MillisecondsText == TimestampText(1700, 9, "")

\* IncomingMessagingEvent: the platform assigns mid, so an event is
\* determined by its mid.  m1 comes from a sender nobody has linked, m2
\* from a sender linked to the application user a1.
EventOf(mid) ==
    IF mid = "m1"
    THEN [mid |-> "m1", sender_ig_id |-> "u1", recipient_ig_id |-> "page",
          timestamp |-> SecondsText,
          attachments |-> Attachments(<<ReelAttachment("r1")>>)]
    ELSE [mid |-> "m2", sender_ig_id |-> "u2", recipient_ig_id |-> "page",
          timestamp |-> MillisecondsText,
          attachments |-> Attachments(<<PostAttachment("p1")>>)]

\* ------------------------------------------------------------- variables
VARIABLES
    profiles,     \* instagram_profiles: ig_id -> row or NoProfile
    messages,     \* messages: mid -> the rows stored with that id
    tokens,       \* verification_tokens: secret number -> row or NoToken
    outbound,     \* outbound_messages: generated id -> row or NoOutbound
    media,        \* media_items: set of rows
    platform,     \* Instagram API, per outbound id: send calls received
    h,            \* per handler: the locals of the running invocation
    invocations,  \* invocations started so far
    faults,       \* store calls rejected so far
    now,          \* the wall clock, in ms since the start
    verifications,\* verify-instagram requests started so far
    confirmations,\* per secret: the 200 answers of verify-instagram so far
    qmsg,         \* the queue message in front of the consumer endpoint
    classified,   \* an error value and what isRetryableError made of it
    webhook,      \* the webhook request being answered, and its answer
    published     \* the publishes that have reached the queue so far

\* the stores, the platform and the handlers
ingestVars == <<profiles, messages, tokens, outbound, media, platform, h,
                invocations, faults>>

\* what the ingestion pipeline and the DM routes never touch
outsideIngest == <<now, verifications, confirmations, qmsg, classified,
                   webhook, published>>

vars == <<ingestVars, outsideIngest>>

\* ----------------------------------------------------------- pure helpers
\* crypto.createHash('sha256').update(tokenPlain).digest('hex')
Sha256(t) == <<"sha256", t>>

\* `${baseUrl}/verify?token=${tokenPlain}&ig_id=${igId}` inside the text
VerificationText(tokenPlain, igId) ==
    [template |-> "verify", token |-> tokenPlain, ig_id |-> igId]

AcknowledgementText == [template |-> "ack", token |-> 0, ig_id |-> NULL]

CustomText == [template |-> "custom", token |-> 0, ig_id |-> NULL]

\* extractMediaFromAttachments
RECURSIVE ExtractFrom(_, _)
ExtractFrom(atts, i) ==
    IF i > Len(atts) THEN <<>>
    ELSE LET a == atts[i]
             rest == ExtractFrom(atts, i + 1)
         IN IF a.type = NULL THEN rest
            ELSE IF a.type = "ig_reel"
            THEN IF a.hasPayload /\ a.payload.reel_video_id # NULL
                    /\ a.payload.url # NULL
                 THEN <<[media_type |-> "reel",
                         media_id |-> a.payload.reel_video_id,
                         url |-> a.payload.url,
                         title |-> a.payload.title]>> \o rest
                 ELSE rest
            ELSE IF a.type = "ig_post"
            THEN IF a.hasPayload /\ a.payload.ig_post_media_id # NULL
                    /\ a.payload.url # NULL
                 THEN <<[media_type |-> "post",
                         media_id |-> a.payload.ig_post_media_id,
                         url |-> a.payload.url,
                         title |-> a.payload.title]>> \o rest
                 ELSE rest
            ELSE rest

extractMediaFromAttachments(attachments) ==
    IF ~attachments.isArray THEN <<>> ELSE ExtractFrom(attachments.items, 1)

\* attachment.type of a null element of the array is a TypeError, which
\* nothing in the function catches.
ExtractThrows(attachments) ==
    /\ attachments.isArray
    /\ \E i \in DOMAIN attachments.items : attachments.items[i].isNull

\* The outcomes a store call can have: accepted, or rejected by the store
\* (the { error } of the supabase client) while the fault budget lasts.
StoreOutcomes == IF faults < MaxFaults THEN {TRUE, FALSE} ELSE {TRUE}

\* The outcomes of a platform send call: delivered, or rejected by the
\* Instagram API while the failure budget lasts.
SendFailures ==
    LET R[i \in 0..MaxInvocations] ==
            IF i = 0 THEN 0
            ELSE R[i - 1] + platform[i].attempts - platform[i].delivered
    IN R[MaxInvocations]

SendOutcomes ==
    IF SendFailures < MaxSendFailures THEN {TRUE, FALSE} ELSE {TRUE}

\* messages.id is the primary key: an insert of an existing id fails 23505
HasNoConflict(rows, mid) == FALSE
HasConflict(rows, mid) == rows[mid] # <<>>

\* select().eq('id', mid).single()
ExistingMessage(rows, mid) == rows[mid][1]

\* status written by the catch block of the retry loop
FailureStatusNever(attempt) == "pending"
FailureStatusEager(attempt) == "failed"
FailureStatus(attempt) == IF attempt = maxAttempts THEN "failed" ELSE "pending"

\* attempts written by both updates of the retry loop
RecordedAttemptsStale(attempt) == attempt - 1
RecordedAttempts(attempt) == attempt

\* if (!profileRow.connected_user_id) ... else ...
IsConnectedAlways(profileRow) == TRUE
IsConnected(profileRow) == profileRow.connected_user_id # NULL

\* if (enqueueResult.ok) markMessageAsProcessed
ShouldMarkNever(enqueueResult) == FALSE
ShouldMarkAlways(enqueueResult) == TRUE
ShouldMarkProcessed(enqueueResult) == enqueueResult.ok

\* ------------------------------------------------------------------ Init
\* A timestamp column that is null (connected_at of a profile nobody linked).
NoTime == 0 - 1

\* "no row": what a local holds before the store has returned a row
NoProfile ==
    [ig_id |-> NULL, username |-> NULL, connected_user_id |-> NULL,
     connected_at |-> NoTime, updated_at |-> NoTime]

\* The row the first upsert of an ig_id creates: every column that is not
\* supplied takes its default, null.
NewProfileRow(ig) == [NoProfile EXCEPT !.ig_id = ig, !.updated_at = 0]

\* A row that the account-linking route has linked to an application user,
\* with the username it fetched.
ConnectedProfileRow(ig, user) ==
    [ig_id |-> ig, username |-> "name", connected_user_id |-> user,
     connected_at |-> 0, updated_at |-> 0]

\* Partial metadata of upsertInstagramProfile; handle passes {}.
NoMeta == [username |-> NULL]

NoMessage ==
    [id |-> NULL, sender_ig_id |-> NULL, recipient_ig_id |-> NULL,
     attachments |-> NoAttachments, received_at |-> NoTime,
     processed |-> FALSE]

NoToken ==
    [token_hash |-> <<>>, ig_id |-> NULL, expires_at |-> 0,
     consumed |-> FALSE, created_by_event_id |-> NULL]

NoOutbound ==
    [recipient_ig_id |-> NULL, kind |-> "none",
     payload |-> [text |-> [template |-> "none", token |-> 0, ig_id |-> NULL]],
     status |-> "none", attempts |-> 0, remote_message_id |-> 0,
     error |-> NULL]

\* The generated keys: the n-th invocation draws the secret n
\* (crypto.randomBytes) and its outbound row gets the id n (a generated
\* uuid); an invocation creates at most one of each.
Ids == 1..MaxInvocations

IdleLocals ==
    [op |-> "none", pc |-> "idle", inv |-> 0, mid |-> NULL, igId |-> NULL,
     profileRow |-> NoProfile, messageRow |-> NoMessage, dup |-> FALSE,
     tokenPlain |-> 0, kind |-> "none", outboundMessageId |-> 0,
     attempt |-> 0, lastError |-> NULL, remoteMessageId |-> 0,
     dm |-> "none", dmError |-> NULL, dmFault |-> FALSE, waits |-> <<>>,
     enqueueResult |-> [called |-> FALSE, ok |-> FALSE],
     user |-> NULL, tokenData |-> NoToken,
     attachments |-> NoAttachments, mediaItems |-> <<>>, item |-> 0,
     timestamp |-> NoTimestamp,
     result |-> "none", error |-> NULL]

\* An error value as isRetryableError reads it: its name, and which of the
\* substrings the function looks for its message contains (hasMessage is
\* false for a value without a message, name is NULL for a value without a
\* name).
NoError == [name |-> NULL, hasMessage |-> FALSE, message |-> {}]

\* The body of a request to the consumer endpoint, before decoding.
NoBody ==
    [kind |-> "none", mid |-> NULL, hasSender |-> FALSE,
     hasRecipient |-> FALSE, hasTimestamp |-> FALSE,
     timestamp |-> NoTimestamp]

\* No message is in front of the consumer endpoint.
NoQueueMessage ==
    [state |-> "none", body |-> NoBody, deliveries |-> 0, status |-> 0,
     error |-> NoError]

\* No error value has been handed to isRetryableError.
NotClassified == [state |-> "none", error |-> NoError, retryable |-> FALSE]

\* One element of entry[].messaging[], or the value of the single-event
\* shape: isNull tells a JSON null from an object, sender / recipient are
\* the ids (NULL when absent), hasMessage tells whether the message object
\* is there, mid and is_echo are its fields.
NoMsg ==
    [isNull |-> FALSE, hasMessage |-> FALSE, mid |-> NULL, is_echo |-> FALSE,
     sender |-> NULL, recipient |-> NULL, hasTimestamp |-> FALSE]

\* One element of entry[]: a JSON null, or an object whose messaging field
\* is an array (isArray) of messages or something else.
NoEntry == [isNull |-> FALSE, isArray |-> FALSE, messaging |-> <<>>]

\* The body of a webhook request: its text is empty, is no JSON ("garbage"),
\* is the JSON value null, or is a JSON object with these fields.  hasEntry
\* tells whether body.entry is truthy, iterable whether for..of accepts it.
NoWebhookBody ==
    [kind |-> "none", field |-> NULL, hasValue |-> FALSE, value |-> NoMsg,
     object |-> NULL, hasEntry |-> FALSE, iterable |-> TRUE, entry |-> <<>>]

\* No webhook request is being answered.  threw: parseMessagingEvents
\* threw; events: what it returned; forward: where the call of
\* forwardToInternalIngestion stands; baseUrl: what getBaseUrl() gave it;
\* publishes: per event, where its publish stands.
IdleWebhook ==
    [state |-> "idle", calls |-> 0, body |-> NoWebhookBody, status |-> 0,
     threw |-> FALSE, events |-> <<>>, forward |-> "none", baseUrl |-> "",
     publishes |-> <<>>]

\* The store at the start: u2 has been linked to the application user a1
\* by the account-linking route, u1 has never been seen.
Init ==
    /\ profiles = [ig \in IgIds |->
                     IF ig = "u2"
                     THEN ConnectedProfileRow("u2", "a1")
                     ELSE NoProfile]
    /\ messages = [m \in Mids |-> <<>>]
    /\ tokens = [t \in Ids |-> NoToken]
    /\ outbound = [i \in Ids |-> NoOutbound]
    /\ media = {}
    /\ platform = [i \in Ids |-> [attempts |-> 0, delivered |-> 0]]
    /\ h = [p \in Procs |-> IdleLocals]
    /\ invocations = 0
    /\ faults = 0
    /\ now = 0
    /\ verifications = 0
    /\ confirmations = [t \in Ids |-> 0]
    /\ qmsg = NoQueueMessage
    /\ classified = NotClassified
    /\ webhook = IdleWebhook
    /\ published = <<>>

Fault(ok) == faults' = IF ok THEN faults ELSE faults + 1

RaiseSwallowed(p, msg) ==
    h' = [h EXCEPT ![p].pc = "done", ![p].result = "success",
                   ![p].error = msg]

\* throw inside handleIncomingMessagingEvent: logged and rethrown
Raise(p, msg) ==
    h' = [h EXCEPT ![p].pc = "done", ![p].result = "raised",
                   ![p].error = msg]

\* A handler that has answered (or never ran) takes the next request; the
\* handlers are interchangeable, so the lowest free one takes it.  The locals
\* of a finished invocation stay readable until then.
IsFree(p) == h[p].pc \in {"idle", "done"}

IsFreeHandler(p) == IsFree(p) /\ \A q \in Procs : q < p => ~IsFree(q)

\* ---------------------------------------------------- handle(event) steps
\* The queue consumer invokes handleIncomingMessagingEvent(event).
StartHandle(p, mid) ==
    /\ IsFreeHandler(p)
    /\ invocations < MaxInvocations
    /\ invocations' = invocations + 1
    /\ h' = [h EXCEPT ![p] = [IdleLocals EXCEPT
                !.op = "handle", !.pc = "upsert", !.inv = invocations + 1,
                !.mid = mid, !.igId = EventOf(mid).sender_ig_id,
                !.timestamp = EventOf(mid).timestamp]]
    /\ UNCHANGED <<profiles, messages, tokens, outbound, media, platform,
                   faults>>
    /\ UNCHANGED outsideIngest

\* .upsert(profileData, {onConflict: 'ig_id', ignoreDuplicates: false}):
\* profileData holds ig_id, updated_at and the metadata fields that are
\* truthy.  The store inserts the row if the ig_id has none and otherwise
\* updates the supplied columns of the stored row, leaving the others.
UpsertedProfileReplacing(row, igId, meta, date) ==
    [NoProfile EXCEPT !.ig_id = igId, !.updated_at = date,
                      !.username = IF meta.username \in {NULL, ""}
                                   THEN NULL ELSE meta.username]
UpsertedProfile(row, igId, meta, date) ==
    IF row.ig_id = NULL
    THEN [NoProfile EXCEPT !.ig_id = igId, !.updated_at = date,
                           !.username = IF meta.username \in {NULL, ""}
                                        THEN NULL ELSE meta.username]
    ELSE [row EXCEPT !.updated_at = date,
                     !.username = IF meta.username \in {NULL, ""}
                                  THEN @ ELSE meta.username]

\* Step 1: upsertInstagramProfile(event.sender_ig_id, {})
UpsertProfile(p) ==
    /\ h[p].pc = "upsert"
    /\ \E ok \in StoreOutcomes :
         /\ Fault(ok)
         /\ IF ok
            THEN LET ig == h[p].igId
                     row == UpsertedProfile(profiles[ig], ig, NoMeta, now)
                 IN /\ profiles' = [profiles EXCEPT ![ig] = row]
                    /\ h' = [h EXCEPT ![p].profileRow = row,
                                      ![p].pc = "insert"]
            ELSE /\ Raise(p, "Failed to upsert Instagram profile")
                 /\ UNCHANGED profiles
    /\ UNCHANGED <<messages, tokens, outbound, media, platform, invocations>>
    /\ UNCHANGED outsideIngest

\* The branch of Step 3, taken once messageRow is known.
BranchPc(profileRow) == IF IsConnected(profileRow) THEN "track" ELSE "token"

BranchKind(profileRow) ==
    IF IsConnected(profileRow) THEN "acknowledgement" ELSE "verification"

\* Step 2: insertMessageIfNotExists, the insert
InsertMessage(p) ==
    /\ h[p].pc = "insert"
    /\ LET e == EventOf(h[p].mid)
           checked == TimestampCheck(h[p].timestamp)
           row == [id |-> e.mid, sender_ig_id |-> e.sender_ig_id,
                   recipient_ig_id |-> e.recipient_ig_id,
                   attachments |-> e.attachments,
                   received_at |-> ReceivedAt(h[p].timestamp),
                   processed |-> FALSE]
       IN IF checked # "ok"
          THEN /\ Raise(p, checked)
               /\ UNCHANGED <<messages, faults>>
          ELSE
          \E ok \in StoreOutcomes :
            /\ Fault(ok)
            /\ IF ~ok
               THEN /\ Raise(p, "Failed to insert message")
                    /\ UNCHANGED messages
               ELSE IF HasConflict(messages, e.mid)
               THEN /\ h' = [h EXCEPT ![p].dup = TRUE, ![p].pc = "fetch"]
                    /\ UNCHANGED messages
               ELSE /\ messages' = [messages EXCEPT
                                       ![e.mid] = Append(@, row)]
                    /\ h' = [h EXCEPT ![p].messageRow = row,
                                      ![p].kind = BranchKind(h[p].profileRow),
                                      ![p].pc = BranchPc(h[p].profileRow)]
    /\ UNCHANGED <<profiles, tokens, outbound, media, platform, invocations>>
    /\ UNCHANGED outsideIngest

\* Step 2: insertMessageIfNotExists, the fetch of the existing row on 23505
FetchExisting(p) ==
    /\ h[p].pc = "fetch"
    /\ \E ok \in StoreOutcomes :
         /\ Fault(ok)
         /\ IF ok
            THEN h' = [h EXCEPT
                         ![p].messageRow =
                             ExistingMessage(messages, h[p].mid),
                         ![p].kind = BranchKind(h[p].profileRow),
                         ![p].pc = BranchPc(h[p].profileRow)]
            ELSE Raise(p, "Failed to fetch existing message")
    /\ UNCHANGED <<profiles, messages, tokens, outbound, media, platform,
                   invocations>>
    /\ UNCHANGED outsideIngest

\* Unverified branch: createVerificationToken(event.sender_ig_id, event.mid).
CreateToken(p) ==
    /\ h[p].pc = "token"
    /\ \E ok \in StoreOutcomes :
         /\ Fault(ok)
         /\ IF ok
            THEN /\ tokens' = [tokens EXCEPT ![h[p].inv] =
                        [token_hash |-> Sha256(h[p].inv),
                         ig_id |-> h[p].igId,
                         expires_at |-> now + TokenTtlMs,
                         consumed |-> FALSE,
                         created_by_event_id |-> h[p].mid]]
                 /\ h' = [h EXCEPT ![p].tokenPlain = h[p].inv,
                                   ![p].pc = "track"]
            ELSE /\ Raise(p, "Failed to create verification token")
                 /\ UNCHANGED tokens
    /\ UNCHANGED <<profiles, messages, outbound, media, platform, invocations>>
    /\ UNCHANGED outsideIngest

\* ------------------------------------- outbound delivery with retry (4.7)
AfterDmPropagates(l, raised) ==
    IF l.op = "send-dm"
    THEN [l EXCEPT !.pc = "done",
                   !.result = IF raised THEN "500" ELSE "200"]
    ELSE IF raised
    THEN [l EXCEPT !.pc = "done", !.result = "raised", !.error = l.dmError]
    ELSE IF l.kind = "verification"
    THEN [l EXCEPT !.pc = "done", !.result = "success"]
    ELSE [l EXCEPT !.pc = "enqueue"]

\* What follows the DM function in its caller.  handle swallows a raise of
\* sendVerificationDM / sendAcknowledgementDM; the send-dm route answers
\* 200 with the ids or 500 with the error.
AfterDm(l, raised) ==
    IF l.op = "send-dm"
    THEN [l EXCEPT !.pc = "done",
                   !.result = IF raised THEN "500" ELSE "200"]
    ELSE IF l.kind = "verification"
    THEN [l EXCEPT !.pc = "done", !.result = "success"]
    ELSE [l EXCEPT !.pc = "enqueue"]

DmReturned(l) == AfterDm([l EXCEPT !.dm = "returned"], FALSE)

DmRaised(l, msg) ==
    AfterDm([l EXCEPT !.dm = "raised", !.dmError = msg], TRUE)

MessageTextOf(l) ==
    IF l.kind = "verification" THEN VerificationText(l.tokenPlain, l.igId)
    ELSE IF l.kind = "acknowledgement" THEN AcknowledgementText
    ELSE CustomText

\* trackOutboundMessage(igId, kind, { text }, 'pending'): attempts = 0
TrackOutbound(p) ==
    /\ h[p].pc = "track"
    /\ \E ok \in StoreOutcomes :
         /\ Fault(ok)
         /\ IF ok
            THEN /\ outbound' = [outbound EXCEPT ![h[p].inv] =
                        [recipient_ig_id |-> h[p].igId, kind |-> h[p].kind,
                         payload |-> [text |-> MessageTextOf(h[p])],
                         status |-> "pending", attempts |-> 0,
                         remote_message_id |-> 0, error |-> NULL]]
                 /\ h' = [h EXCEPT ![p].outboundMessageId = h[p].inv,
                                   ![p].dm = "running",
                                   ![p].attempt = 1,
                                   ![p].pc = "send"]
            ELSE /\ h' = [h EXCEPT ![p] =
                        DmRaised([h[p] EXCEPT !.dmFault = TRUE],
                                 "Failed to track outbound message")]
                 /\ UNCHANGED outbound
    /\ UNCHANGED <<profiles, messages, tokens, media, platform, invocations>>
    /\ UNCHANGED outsideIngest

\* The id the platform returns for the k-th send call of an outbound row.
RemoteId(oid, k) == oid * 10 + k

\* the wait of the catch block: only while attempts remain
WaitsAfter(waits, attempt) ==
    IF attempt < maxAttempts THEN Append(waits, BackoffDelay(attempt))
    ELSE waits

\* for (attempt = 1; attempt <= maxAttempts; attempt++) { sendDM(...) }
SendDM(p) ==
    /\ h[p].pc = "send"
    /\ h[p].attempt <= maxAttempts
    /\ LET oid == h[p].outboundMessageId IN
       \E delivered \in SendOutcomes :
         /\ platform' = [platform EXCEPT
                ![oid].attempts = @ + 1,
                ![oid].delivered = IF delivered THEN @ + 1 ELSE @]
         /\ IF delivered
            THEN h' = [h EXCEPT
                         ![p].remoteMessageId =
                             RemoteId(oid, platform[oid].attempts + 1),
                         ![p].pc = "update_sent"]
            ELSE h' = [h EXCEPT
                         ![p].lastError = "Instagram API error",
                         ![p].waits = WaitsAfter(h[p].waits, h[p].attempt),
                         ![p].pc = "update_failure"]
    /\ UNCHANGED <<profiles, messages, tokens, outbound, media, invocations,
                   faults>>
    /\ UNCHANGED outsideIngest

\* sendDM when the platform takes the request and never answers: fetch(url,
\* {method, headers, body}) is given no signal and raced against no timer,
\* so nothing settles the await and the invocation stays where it is.
SendHangs(p) ==
    /\ h[p].pc = "send"
    /\ h[p].attempt <= maxAttempts
    /\ h' = [h EXCEPT ![p].pc = "awaiting_platform"]
    /\ UNCHANGED <<profiles, messages, tokens, outbound, media, platform,
                   invocations, faults>>
    /\ UNCHANGED outsideIngest

\* try: updateOutboundMessage(id, {status: 'sent', remote_message_id,
\* attempts: attempt}); return.  A rejected update is thrown inside the try
\* block, so the catch block of the loop handles it like a failed send.
UpdateSent(p) ==
    /\ h[p].pc = "update_sent"
    /\ LET oid == h[p].outboundMessageId IN
       \E ok \in StoreOutcomes :
         /\ Fault(ok)
         /\ IF ok
            THEN /\ outbound' = [outbound EXCEPT
                        ![oid].status = "sent",
                        ![oid].remote_message_id = h[p].remoteMessageId,
                        ![oid].attempts = RecordedAttempts(h[p].attempt)]
                 /\ h' = [h EXCEPT ![p] = DmReturned(h[p])]
            ELSE /\ h' = [h EXCEPT
                        ![p].lastError = "Failed to update outbound message",
                        ![p].dmFault = TRUE,
                        ![p].waits = WaitsAfter(h[p].waits, h[p].attempt),
                        ![p].pc = "update_failure"]
                 /\ UNCHANGED outbound
    /\ UNCHANGED <<profiles, messages, tokens, media, platform, invocations>>
    /\ UNCHANGED outsideIngest

\* catch: updateOutboundMessage(id, {status: attempt === maxAttempts ?
\* 'failed' : 'pending', error, attempts: attempt}); then the next
\* iteration, or `throw lastError` after the last one.  A rejected update is
\* thrown from the catch block and leaves the function at once.
UpdateFailure(p) ==
    /\ h[p].pc = "update_failure"
    /\ LET oid == h[p].outboundMessageId IN
       \E ok \in StoreOutcomes :
         /\ Fault(ok)
         /\ IF ok
            THEN /\ outbound' = [outbound EXCEPT
                        ![oid].status = FailureStatus(h[p].attempt),
                        ![oid].error = h[p].lastError,
                        ![oid].attempts = RecordedAttempts(h[p].attempt)]
                 /\ IF h[p].attempt + 1 <= maxAttempts
                    THEN h' = [h EXCEPT ![p].attempt = @ + 1,
                                        ![p].pc = "send"]
                    ELSE h' = [h EXCEPT ![p] =
                                 DmRaised(h[p], h[p].lastError)]
            ELSE /\ h' = [h EXCEPT ![p] =
                        DmRaised([h[p] EXCEPT !.dmFault = TRUE],
                                 "Failed to update outbound message")]
                 /\ UNCHANGED outbound
    /\ UNCHANGED <<profiles, messages, tokens, media, platform, invocations>>
    /\ UNCHANGED outsideIngest

\* ----------------------------------------------- verified branch, the rest
\* enqueueForPhase3Processing(messageRow, profileRow): the abstract hand-off.
\* The shipped stub answers { ok: true }; its declared result { ok: boolean }
\* is what handle branches on, so both answers are drawn.
Enqueue(p) ==
    /\ h[p].pc = "enqueue"
    /\ \E ok \in BOOLEAN :
         LET res == [called |-> TRUE, ok |-> ok] IN
         h' = [h EXCEPT
                 ![p].enqueueResult = res,
                 ![p].pc = IF ShouldMarkProcessed(res) THEN "mark"
                           ELSE "done",
                 ![p].result = IF ShouldMarkProcessed(res) THEN "none"
                               ELSE "success"]
    /\ UNCHANGED <<profiles, messages, tokens, outbound, media, platform,
                   invocations, faults>>
    /\ UNCHANGED outsideIngest

\* markMessageAsProcessed(event.mid): update messages set processed = true
MarkProcessed(p) ==
    /\ h[p].pc = "mark"
    /\ \E ok \in StoreOutcomes :
         /\ Fault(ok)
         /\ IF ok
            THEN /\ messages' = [messages EXCEPT ![h[p].mid] =
                        [i \in DOMAIN @ |-> [@[i] EXCEPT !.processed = TRUE]]]
                 /\ h' = [h EXCEPT ![p].pc = "done",
                                   ![p].result = "success"]
            ELSE /\ Raise(p, "Failed to mark message as processed")
                 /\ UNCHANGED messages
    /\ UNCHANGED <<profiles, tokens, outbound, media, platform, invocations>>
    /\ UNCHANGED outsideIngest

\* ------------------------------------------- storeMediaItems (4.5)
\* The calls of storeMediaItems(event, profileRow): an event with one or two
\* attachments, for a profile that is not linked or is linked to a1.
StoreMediaRequests ==
    [mid : Mids,
     attachments : {Attachments(<<ReelAttachment("r1")>>),
                    Attachments(<<PostAttachment("p1")>>),
                    Attachments(<<ReelAttachment("r1"),
                                  ReelAttachment("r1")>>),
                    Attachments(<<ReelAttachment("r1"), NullAttachment>>),
                    NoAttachments},
     profileRow : {NewProfileRow("u1"),
                   ConnectedProfileRow("u2", "a1")}]

\* The rows of media_items of an owner and a media id.
MediaRows(rows, owner, mediaId) ==
    {r \in rows : r.owner_user_id = owner /\ r.media_id = mediaId}

\* if (existing): the select found a row
MediaExists(rows, owner, mediaId) == MediaRows(rows, owner, mediaId) # {}

\* media_items is unique per (owner_user_id, media_id): an insert of a
\* stored pair fails with code 23505.
MediaConflict(rows, owner, mediaId) == MediaRows(rows, owner, mediaId) # {}

\* The next iteration of for (const media of mediaItems), or the return.
NextMedia(l) ==
    IF l.item < Len(l.mediaItems)
    THEN [l EXCEPT !.item = @ + 1, !.pc = "media_check"]
    ELSE [l EXCEPT !.pc = "done", !.result = "returned"]

\* storeMediaItems up to its first await: nothing to do for a profile that
\* is not linked or an event without media.  The extraction is called
\* outside the try of the loop, so what it throws rejects the call.
StartStoreMedia(p, req) ==
    /\ IsFreeHandler(p)
    /\ invocations < MaxInvocations
    /\ invocations' = invocations + 1
    /\ LET l == [IdleLocals EXCEPT
                   !.op = "store-media", !.inv = invocations + 1,
                   !.mid = req.mid, !.igId = EventOf(req.mid).sender_ig_id,
                   !.profileRow = req.profileRow,
                   !.attachments = req.attachments]
           items == extractMediaFromAttachments(req.attachments)
       IN h' = [h EXCEPT ![p] =
                  IF ~IsConnected(req.profileRow)
                  THEN [l EXCEPT !.pc = "done", !.result = "returned"]
                  ELSE IF ExtractThrows(req.attachments)
                  THEN [l EXCEPT !.pc = "done", !.result = "raised",
                                 !.error = "TypeError"]
                  ELSE IF Len(items) = 0
                  THEN [l EXCEPT !.pc = "done", !.result = "returned"]
                  ELSE [l EXCEPT !.mediaItems = items, !.item = 1,
                                 !.pc = "media_check"]]
    /\ UNCHANGED <<profiles, messages, tokens, outbound, media, platform,
                   faults>>
    /\ UNCHANGED outsideIngest

\* select id, media_id where owner_user_id = ... and media_id = ...: a
\* rejected select and a found row both end the iteration.
CheckMedia(p) ==
    /\ h[p].pc = "media_check"
    /\ LET owner == h[p].profileRow.connected_user_id
           mediaId == h[p].mediaItems[h[p].item].media_id
       IN \E ok \in StoreOutcomes :
            /\ Fault(ok)
            /\ h' = [h EXCEPT ![p] =
                       IF ~ok \/ MediaExists(media, owner, mediaId)
                       THEN NextMedia(h[p])
                       ELSE [h[p] EXCEPT !.pc = "media_insert"]]
    /\ UNCHANGED <<profiles, messages, tokens, outbound, media, platform,
                   invocations>>
    /\ UNCHANGED outsideIngest

\* insert into media_items: a rejected insert is logged, whether it is the
\* 23505 of a lost race (dup) or something else, and the loop goes on.
InsertMedia(p) ==
    /\ h[p].pc = "media_insert"
    /\ LET owner == h[p].profileRow.connected_user_id
           m == h[p].mediaItems[h[p].item]
           row == [id |-> <<h[p].inv, h[p].item>>,
                   owner_user_id |-> owner, sender_ig_id |-> h[p].igId,
                   owner_ig_id |-> h[p].profileRow.ig_id,
                   media_type |-> m.media_type, media_id |-> m.media_id,
                   url |-> m.url, title |-> m.title]
       IN \E ok \in StoreOutcomes :
            /\ Fault(ok)
            /\ IF ~ok
               THEN /\ h' = [h EXCEPT ![p] = NextMedia(h[p])]
                    /\ UNCHANGED media
               ELSE IF MediaConflict(media, owner, m.media_id)
               THEN /\ h' = [h EXCEPT ![p] =
                              NextMedia([h[p] EXCEPT !.dup = TRUE])]
                    /\ UNCHANGED media
               ELSE /\ media' = media \cup {row}
                    /\ h' = [h EXCEPT ![p] = NextMedia(h[p])]
    /\ UNCHANGED <<profiles, messages, tokens, outbound, platform,
                   invocations>>
    /\ UNCHANGED outsideIngest

\* ------------------------------------- extractMediaFromAttachments (4.5)
\* The elements an attachments array is made of: a reel, a post, an
\* element without a type (an object without the field, a string, a
\* number), a share, a reel without its payload, a JSON null, a reel
\* without its url and a post without its media id.
AttachmentElements ==
    {ReelAttachment("r1"), PostAttachment("p1"),
     [isNull |-> FALSE, type |-> NULL, hasPayload |-> FALSE,
      payload |-> NoPayload],
     [isNull |-> FALSE, type |-> "share", hasPayload |-> TRUE,
      payload |-> [NoPayload EXCEPT !.url = "url"]],
     [isNull |-> FALSE, type |-> "ig_reel", hasPayload |-> FALSE,
      payload |-> NoPayload],
     NullAttachment,
     [ReelAttachment("r2") EXCEPT !.payload.url = NULL],
     [PostAttachment("p2") EXCEPT !.payload.ig_post_media_id = NULL]}

\* The values of event.attachments: absent, an object that is no array,
\* or an array of at most MaxAttachments elements.
AttachmentValues ==
    {NoAttachments, [isArray |-> FALSE, items |-> <<ReelAttachment("r1")>>]}
    \cup {Attachments(a) :
             a \in UNION {[1..k -> AttachmentElements] :
                             k \in 0..MaxAttachments}}

\* One call of extractMediaFromAttachments on the value it was given.
Extract(p) ==
    /\ h[p].op = "extract" /\ h[p].pc = "extract"
    /\ h' = [h EXCEPT ![p] =
               IF ExtractThrows(h[p].attachments)
               THEN [h[p] EXCEPT !.pc = "done", !.result = "raised",
                                 !.error = "TypeError"]
               ELSE [h[p] EXCEPT
                       !.pc = "done", !.result = "returned",
                       !.mediaItems =
                           extractMediaFromAttachments(h[p].attachments)]]
    /\ UNCHANGED <<profiles, messages, tokens, outbound, media, platform,
                   invocations, faults>>
    /\ UNCHANGED outsideIngest

\* ------------------------------------------- POST /api/internal/send-dm
\* A request of an internal route: the x-service-token header and the body
\* fields (INTERNAL_SERVICE_TOKEN is configured).
SendDmRequests ==
    {[authorized |-> TRUE, ig_id |-> "u1", hasText |-> TRUE],
     [authorized |-> FALSE, ig_id |-> "u1", hasText |-> TRUE],
     [authorized |-> TRUE, ig_id |-> NULL, hasText |-> TRUE]}

\* The route runs its own copy of the retry loop with kind 'custom'.
StartSendDm(p, req) ==
    /\ IsFreeHandler(p)
    /\ invocations < MaxInvocations
    /\ invocations' = invocations + 1
    /\ h' = [h EXCEPT ![p] =
            IF ~req.authorized
            THEN [IdleLocals EXCEPT !.op = "send-dm", !.pc = "done",
                                    !.inv = invocations + 1,
                                    !.result = "401"]
            ELSE IF req.ig_id = NULL \/ ~req.hasText
            THEN [IdleLocals EXCEPT !.op = "send-dm", !.pc = "done",
                                    !.inv = invocations + 1,
                                    !.result = "400"]
            ELSE [IdleLocals EXCEPT !.op = "send-dm", !.pc = "track",
                                    !.inv = invocations + 1,
                                    !.igId = req.ig_id, !.kind = "custom"]]
    /\ UNCHANGED <<profiles, messages, tokens, outbound, media, platform,
                   faults>>
    /\ UNCHANGED outsideIngest

\* ------------------------------- POST /api/internal/send-verification-dm
\* The secret of a request is one the caller was handed, not one drawn here.
RequestToken == MaxInvocations + 1

SendVerificationRequests ==
    {[authorized |-> TRUE, ig_id |-> "u1", token_plain |-> RequestToken],
     [authorized |-> TRUE, ig_id |-> "u1", token_plain |-> 0]}

\* The route calls sendVerificationDM(ig_id, token_plain).
StartSendVerificationDm(p, req) ==
    /\ IsFreeHandler(p)
    /\ invocations < MaxInvocations
    /\ invocations' = invocations + 1
    /\ h' = [h EXCEPT ![p] =
            IF ~req.authorized
            THEN [IdleLocals EXCEPT !.op = "send-dm", !.pc = "done",
                                    !.inv = invocations + 1,
                                    !.result = "401"]
            ELSE IF req.ig_id = NULL \/ req.token_plain = 0
            THEN [IdleLocals EXCEPT !.op = "send-dm", !.pc = "done",
                                    !.inv = invocations + 1,
                                    !.result = "400"]
            ELSE [IdleLocals EXCEPT !.op = "send-dm", !.pc = "track",
                                    !.inv = invocations + 1,
                                    !.igId = req.ig_id,
                                    !.tokenPlain = req.token_plain,
                                    !.kind = "verification"]]
    /\ UNCHANGED <<profiles, messages, tokens, outbound, media, platform,
                   faults>>
    /\ UNCHANGED outsideIngest

\* ------------------------------------------ POST /api/auth/verify-instagram
\* A request: the session's user (NULL without a session) and the body
\* fields token and ig_id (0 / NULL when missing).  The secrets 1 ..
\* MaxInvocations are the issued ones, RequestToken was never issued.
VerifyRequests ==
    {[user |-> u, token |-> t, ig_id |-> "u1"] :
         u \in {"a1", "a2"}, t \in Ids}
    \cup {[user |-> NULL, token |-> 1, ig_id |-> "u1"],
          [user |-> "a1", token |-> 0, ig_id |-> "u1"],
          [user |-> "a1", token |-> 1, ig_id |-> NULL],
          [user |-> "a1", token |-> RequestToken, ig_id |-> "u1"],
          [user |-> "a1", token |-> 1, ig_id |-> "u2"]}

\* if (authError || !user) 401; if (!token || !ig_id) 400
StartVerify(p, req) ==
    /\ IsFreeHandler(p)
    /\ verifications < MaxVerifications
    /\ verifications' = verifications + 1
    /\ h' = [h EXCEPT ![p] =
            IF req.user = NULL
            THEN [IdleLocals EXCEPT !.op = "verify", !.pc = "done",
                                    !.result = "401"]
            ELSE IF req.token = 0 \/ req.ig_id = NULL
            THEN [IdleLocals EXCEPT !.op = "verify", !.pc = "done",
                                    !.user = req.user, !.result = "400"]
            ELSE [IdleLocals EXCEPT !.op = "verify", !.pc = "lookup",
                                    !.user = req.user,
                                    !.tokenPlain = req.token,
                                    !.igId = req.ig_id]]
    /\ UNCHANGED <<profiles, messages, tokens, outbound, media, platform,
                   invocations, faults, now, confirmations, qmsg,
                   classified, webhook, published>>

\* .eq('token_hash', tokenHash).eq('ig_id', ig_id).eq('consumed', false)
MatchingTokens(rows, tokenPlain, igId) ==
    {t \in Ids : /\ rows[t].token_hash = Sha256(tokenPlain)
                 /\ rows[t].ig_id = igId
                 /\ ~rows[t].consumed}

\* if (expiresAt < new Date())
IsExpiredAtOrAfter(expiresAt, date) == expiresAt <= date
IsExpired(expiresAt, date) == expiresAt < date

\* The lookup with .single(), then the expiry check on the row it returned.
LookupToken(p) ==
    /\ h[p].pc = "lookup"
    /\ LET found == MatchingTokens(tokens, h[p].tokenPlain, h[p].igId) IN
       \E ok \in StoreOutcomes :
         /\ Fault(ok)
         /\ IF ~ok \/ Cardinality(found) # 1
            THEN h' = [h EXCEPT
                         ![p].pc = "done", ![p].result = "400",
                         ![p].error = "Invalid or expired verification token"]
            ELSE LET tokenData == tokens[CHOOSE t \in found : TRUE] IN
                 IF IsExpired(tokenData.expires_at, now)
                 THEN h' = [h EXCEPT
                              ![p].tokenData = tokenData,
                              ![p].pc = "done", ![p].result = "400",
                              ![p].error = "Verification token has expired"]
                 ELSE h' = [h EXCEPT ![p].tokenData = tokenData,
                                     ![p].pc = "consume"]
    /\ UNCHANGED <<profiles, messages, tokens, outbound, media, platform,
                   invocations, now, verifications, confirmations, qmsg,
                   classified, webhook, published>>

\* update({ consumed: true }).eq('token_hash', tokenHash): the result of the
\* update is not looked at.  The profile fetch from the Graph API that
\* follows only fills username, which LinkProfile draws.
ConsumeToken(p) ==
    /\ h[p].pc = "consume"
    /\ \E ok \in StoreOutcomes :
         /\ Fault(ok)
         /\ tokens' = IF ok
                      THEN [t \in Ids |->
                              IF tokens[t].token_hash = Sha256(h[p].tokenPlain)
                              THEN [tokens[t] EXCEPT !.consumed = TRUE]
                              ELSE tokens[t]]
                      ELSE tokens
    /\ h' = [h EXCEPT ![p].pc = "link"]
    /\ UNCHANGED <<profiles, messages, outbound, media, platform,
                   invocations, now, verifications, confirmations, qmsg,
                   classified, webhook, published>>

\* update({ connected_user_id: user.id, ... }).eq('ig_id', ig_id)
LinkedProfiles(rows, igId, user, username, date) ==
    [ig \in IgIds |->
        IF rows[ig].ig_id = igId
        THEN [rows[ig] EXCEPT !.connected_user_id = user,
                              !.connected_at = date, !.updated_at = date,
                              !.username = IF username \in {NULL, ""}
                                           THEN @ ELSE username]
        ELSE rows[ig]]

\* username is what the Graph API fetch of the route left in
\* profileData.username: a name, or nothing when the fetch failed or is not
\* configured.
LinkProfile(p) ==
    /\ h[p].pc = "link"
    /\ \E ok \in StoreOutcomes, username \in {NULL, "name"} :
         /\ Fault(ok)
         /\ IF ok
            THEN /\ profiles' = LinkedProfiles(profiles, h[p].igId, h[p].user,
                                              username, now)
                 /\ confirmations' =
                        [confirmations EXCEPT ![h[p].tokenPlain] = @ + 1]
                 /\ h' = [h EXCEPT ![p].pc = "done", ![p].result = "200"]
            ELSE /\ h' = [h EXCEPT
                              ![p].pc = "done", ![p].result = "500",
                              ![p].error = "Failed to link Instagram account"]
                 /\ UNCHANGED <<profiles, confirmations>>
    /\ UNCHANGED <<messages, tokens, outbound, media, platform,
                   invocations, now, verifications, qmsg, classified,
                   webhook, published>>

\* Time passes.
Tick ==
    /\ now < MaxTicks * TickMs
    /\ now' = now + TickMs
    /\ UNCHANGED <<ingestVars, verifications, confirmations, qmsg,
                   classified, webhook, published>>

\* ------------------------------------ POST /api/qstash/instagram-ingestion
\* The substrings isRetryableError looks for in error.message, and the
\* names it compares error.name with.
TimeoutMarkers == {"timeout", "timed out"}
ValidationMarkers == {"Invalid", "validation"}
AuthMarkers == {"Unauthorized", "authentication"}
Markers == TimeoutMarkers \cup ValidationMarkers \cup AuthMarkers
NetworkNames == {"FetchError", "NetworkError"}

\* error?.message?.includes(a) || error?.message?.includes(b)
Includes(error, markers) ==
    error.hasMessage /\ error.message \cap markers # {}

isRetryableErrorValidationFirst(error) ==
    IF Includes(error, ValidationMarkers) THEN FALSE
    ELSE IF Includes(error, TimeoutMarkers) THEN TRUE
    ELSE IF error.name \in NetworkNames THEN TRUE
    ELSE IF Includes(error, AuthMarkers) THEN FALSE
    ELSE TRUE
isRetryableError(error) ==
    IF Includes(error, TimeoutMarkers) THEN TRUE
    ELSE IF error.name \in NetworkNames THEN TRUE
    ELSE IF Includes(error, ValidationMarkers) THEN FALSE
    ELSE IF Includes(error, AuthMarkers) THEN FALSE
    ELSE TRUE

\* The error values handed to isRetryableError.
Errors ==
    {[name |-> n, hasMessage |-> TRUE, message |-> m] :
         n \in {NULL, "Error", "TypeError", "FetchError", "NetworkError"},
         m \in SUBSET Markers}
    \cup {[name |-> n, hasMessage |-> FALSE, message |-> {}] :
              n \in {NULL, "Error", "FetchError"}}

Classify ==
    /\ classified.state = "thrown"
    /\ classified' = [classified EXCEPT
                         !.state = "classified",
                         !.retryable = isRetryableError(classified.error)]
    /\ UNCHANGED <<ingestVars, now, verifications, confirmations, qmsg,
                   webhook, published>>

\* The timestamps of delivered bodies: the same instant in seconds and in
\* milliseconds, "abc", "1", "1timeout", and 4200000000, a second of the
\* year 2103.
QueueTimestamps ==
    {SecondsText, MillisecondsText, TimestampText(NaN, 0, "abc"),
     TimestampText(1, 0, ""), TimestampText(1, 0, "timeout"),
     TimestampText(4200, 6, "")}

\* The request bodies the queue delivers: text that is no JSON, the JSON
\* value null, and JSON objects with or without each required field.
ConsumerBodies ==
    {[NoBody EXCEPT !.kind = "garbage"], [NoBody EXCEPT !.kind = "null"]}
    \cup {[kind |-> "object", mid |-> m, hasSender |-> s,
           hasRecipient |-> r, hasTimestamp |-> t,
           timestamp |-> IF t THEN ts ELSE NoTimestamp] :
              m \in Mids \cup {NULL}, s \in BOOLEAN, r \in BOOLEAN,
              t \in BOOLEAN, ts \in QueueTimestamps}

\* A message is published to the queue with the consumer endpoint as target.
PublishToQueue(body) ==
    /\ qmsg.state = "none"
    /\ qmsg' = [NoQueueMessage EXCEPT !.state = "queued", !.body = body]
    /\ UNCHANGED <<ingestVars, now, verifications, confirmations,
                   classified, webhook, published>>

\* !event.mid || !event.sender_ig_id || !event.recipient_ig_id ||
\* !event.timestamp
MissingRequiredField(body) ==
    \/ body.mid = NULL
    \/ ~body.hasSender
    \/ ~body.hasRecipient
    \/ ~body.hasTimestamp

\* status of the answer to a failed handle
FailureStatusCodeRetryAll(isRetryable) == IF isRetryable THEN 500 ELSE 500
FailureStatusCode(isRetryable) == IF isRetryable THEN 500 ELSE 400

\* handler(request) up to the call of handleIncomingMessagingEvent:
\* request.json() throws on a body that is no JSON and reading event.mid
\* throws on null, both caught by the outer catch (500); a missing
\* required field is answered 400; otherwise handle is invoked.  A
\* delivery is a new request: the error of the answer before is gone.
ConsumeDelivery(p) ==
    /\ qmsg.state = "queued"
    /\ qmsg.deliveries < MaxDeliveries
    /\ IsFree(p)
    /\ LET body == qmsg.body
           delivered == [qmsg EXCEPT !.deliveries = @ + 1,
                                     !.error = NoError]
       IN IF body.kind \in {"garbage", "null"}
          THEN /\ qmsg' = [delivered EXCEPT !.state = "answered",
                                            !.status = 500]
               /\ UNCHANGED <<h, invocations>>
          ELSE IF MissingRequiredField(body)
          THEN /\ qmsg' = [delivered EXCEPT !.state = "answered",
                                            !.status = 400]
               /\ UNCHANGED <<h, invocations>>
          ELSE /\ invocations < MaxInvocations
               /\ invocations' = invocations + 1
               /\ h' = [h EXCEPT ![p] = [IdleLocals EXCEPT
                           !.op = "handle", !.pc = "upsert",
                           !.inv = invocations + 1, !.mid = body.mid,
                           !.igId = EventOf(body.mid).sender_ig_id,
                           !.timestamp = body.timestamp]]
               /\ qmsg' = [delivered EXCEPT !.state = "handling"]
    /\ UNCHANGED <<profiles, messages, tokens, outbound, media, platform,
                   faults, now, verifications, confirmations, classified,
                   webhook, published>>

\* What handle throws: new Error(`Failed to ...: ${error.message}`), whose
\* message carries the text of the store's error.  Nothing reads that text
\* before the classification, so it is drawn here.
HandleErrors ==
    {[name |-> "Error", hasMessage |-> TRUE, message |-> m] :
         m \in SUBSET Markers}

\* handler(request) after handleIncomingMessagingEvent returned or threw.
\* handle's catch rethrows what it caught: the error of the timestamp
\* validation as it was thrown, any other with the text of the store.
Respond(p) ==
    /\ qmsg.state = "handling"
    /\ h[p].op = "handle"
    /\ h[p].pc = "done"
    /\ IF h[p].result = "success"
       THEN qmsg' = [qmsg EXCEPT !.state = "answered", !.status = 200]
       ELSE \E processError \in
                 IF h[p].error \in {"Invalid time value", "Invalid timestamp"}
                 THEN {TimestampError(h[p].timestamp)}
                 ELSE HandleErrors :
              qmsg' = [qmsg EXCEPT
                         !.state = "answered",
                         !.error = processError,
                         !.status = FailureStatusCode(
                                        isRetryableError(processError))]
    /\ UNCHANGED <<ingestVars, now, verifications, confirmations,
                   classified, webhook, published>>

\* The queue, as the endpoint's comments describe it: no retry on a 2xx or
\* 4xx answer, redelivery on a 5xx answer.
QueueReacts ==
    /\ qmsg.state = "answered"
    /\ qmsg' = [qmsg EXCEPT
                   !.state = IF qmsg.status = 500 THEN "queued"
                             ELSE "settled"]
    /\ UNCHANGED <<ingestVars, now, verifications, confirmations,
                   classified, webhook, published>>

\* ------------------------------------------ POST /api/webhooks/instagram
\* value.sender?.id || ''
IdOrEmpty(id) == IF id = NULL THEN "" ELSE id

\* !msg.message.mid: an absent mid and an empty mid alike
FalsyOnlyAbsent(v) == v = NULL
Falsy(v) == v \in {NULL, ""}

\* The event pushed for a message; fromPayload tells whether the timestamp
\* is the payload's or String(Date.now()).
EventFrom(msg) ==
    [mid |-> msg.mid, sender_ig_id |-> IdOrEmpty(msg.sender),
     recipient_ig_id |-> IdOrEmpty(msg.recipient),
     fromPayload |-> msg.hasTimestamp]

\* if (body.field === 'messages' && body.value): no look at is_echo
ParseSingle(body) ==
    IF body.field = "messages" /\ body.hasValue
          /\ body.value.hasMessage /\ ~Falsy(body.value.mid)
    THEN <<EventFrom(body.value)>>
    ELSE <<>>

\* for (const msg of entry.messaging): echoes and messages without a mid
\* are skipped
RECURSIVE ParseMessaging(_, _)
ParseMessaging(msgs, i) ==
    IF i > Len(msgs) THEN <<>>
    ELSE IF msgs[i].hasMessage /\ msgs[i].is_echo
    THEN ParseMessaging(msgs, i + 1)
    ELSE IF ~msgs[i].hasMessage \/ Falsy(msgs[i].mid)
    THEN ParseMessaging(msgs, i + 1)
    ELSE <<EventFrom(msgs[i])>> \o ParseMessaging(msgs, i + 1)

\* for (const entry of body.entry): entry.messaging must be an array
RECURSIVE ParseEntries(_, _)
ParseEntries(entries, i) ==
    IF i > Len(entries) THEN <<>>
    ELSE (IF entries[i].isArray
          THEN ParseMessaging(entries[i].messaging, 1)
          ELSE <<>>) \o ParseEntries(entries, i + 1)

\* What parseMessagingEvents returns when it returns.
parseMessagingEvents(body) ==
    ParseSingle(body)
    \o (IF body.object = "instagram" /\ body.hasEntry
        THEN ParseEntries(body.entry, 1)
        ELSE <<>>)

\* Whether parseMessagingEvents throws a TypeError instead of returning:
\* body.field of null, for..of over a value that is not iterable,
\* entry.messaging of a null entry, msg.message of a null msg.
ParseThrows(body) ==
    \/ body.kind = "null"
    \/ /\ body.object = "instagram" /\ body.hasEntry
       /\ \/ ~body.iterable
          \/ \E k \in DOMAIN body.entry :
                \/ body.entry[k].isNull
                \/ /\ body.entry[k].isArray
                   /\ \E i \in DOMAIN body.entry[k].messaging :
                         body.entry[k].messaging[i].isNull

\* The messages a payload is made of: a message m1 from u1, an echo m2 of a
\* message the application sent, a read receipt, a message without mid, a
\* message m1 without a sender, a message with an empty mid, a message m3
\* from u1, and a JSON null.
TextMessage(mid, sender) ==
    [NoMsg EXCEPT !.hasMessage = TRUE, !.mid = mid, !.sender = sender,
                  !.recipient = "page", !.hasTimestamp = TRUE]

WebhookMsgs ==
    {TextMessage("m1", "u1"),
     [NoMsg EXCEPT !.hasMessage = TRUE, !.mid = "m2", !.is_echo = TRUE,
                   !.sender = "page", !.recipient = "u2",
                   !.hasTimestamp = TRUE],
     [NoMsg EXCEPT !.sender = "u1", !.recipient = "page"],
     TextMessage(NULL, "u1"),
     [NoMsg EXCEPT !.hasMessage = TRUE, !.mid = "m1", !.recipient = "page"],
     TextMessage("", "u1"),
     TextMessage("m3", "u1"),
     [NoMsg EXCEPT !.isNull = TRUE]}

\* messaging arrays of at most n elements
MessagingArrays(n) ==
    UNION {[1..k -> WebhookMsgs] : k \in 0..n}

\* The bodies with messaging arrays of at most n elements; body.value is
\* truthy, so it is never the JSON null.
WebhookBodiesUpTo(n) ==
    {[NoWebhookBody EXCEPT !.kind = k] : k \in {"empty", "garbage", "null"}}
    \cup {[NoWebhookBody EXCEPT !.kind = "object", !.field = "messages",
                                !.hasValue = TRUE, !.value = v] :
              v \in {w \in WebhookMsgs : ~w.isNull}}
    \cup {[NoWebhookBody EXCEPT !.kind = "object", !.field = "messages"],
          [NoWebhookBody EXCEPT !.kind = "object", !.field = "comments",
                                !.hasValue = TRUE],
          [NoWebhookBody EXCEPT !.kind = "object", !.object = "instagram"],
          [NoWebhookBody EXCEPT !.kind = "object", !.object = "page",
                                !.hasEntry = TRUE],
          [NoWebhookBody EXCEPT
              !.kind = "object", !.object = "instagram", !.hasEntry = TRUE,
              !.iterable = FALSE],
          [NoWebhookBody EXCEPT
              !.kind = "object", !.object = "instagram", !.hasEntry = TRUE,
              !.entry = <<[NoEntry EXCEPT !.isNull = TRUE]>>],
          [NoWebhookBody EXCEPT
              !.kind = "object", !.object = "instagram", !.hasEntry = TRUE,
              !.entry = <<NoEntry>>],
          [NoWebhookBody EXCEPT
              !.kind = "object", !.object = "instagram", !.hasEntry = TRUE,
              !.entry = <<[NoEntry EXCEPT
                             !.isArray = TRUE,
                             !.messaging = <<TextMessage("m1", "u1")>>],
                          [NoEntry EXCEPT
                             !.isArray = TRUE,
                             !.messaging = <<TextMessage("m3", "u1")>>]>>]}
    \cup {[NoWebhookBody EXCEPT
              !.kind = "object", !.object = "instagram", !.hasEntry = TRUE,
              !.entry = <<[NoEntry EXCEPT !.isArray = TRUE,
                                          !.messaging = ms]>>] :
              ms \in MessagingArrays(n)}

\* The bodies handed to parseMessagingEvents.
WebhookBodies == WebhookBodiesUpTo(MaxMessaging)

\* The bodies delivered to the webhook route: those with at most one
\* element per messaging array, among them one with two entries.
DeliveredBodies == WebhookBodiesUpTo(1)

\* parseMessagingEvents(body) on its own: it throws, or returns its events.
ParseBody ==
    /\ webhook.state = "decoded"
    /\ webhook' =
         IF ParseThrows(webhook.body)
         THEN [webhook EXCEPT !.state = "parsed", !.threw = TRUE]
         ELSE [webhook EXCEPT !.state = "parsed",
                              !.events = parseMessagingEvents(webhook.body)]
    /\ UNCHANGED <<ingestVars, now, verifications, confirmations, qmsg,
                   classified, published>>

\* The body the consumer endpoint decodes from the job published for an
\* event (publishJSON({body: event}), then request.json()): a field of the
\* event is there if its value is truthy, and the timestamp is the string
\* of a number or of Date.now(), never empty.  The platform and Date.now()
\* count milliseconds.
QueueBodyOf(event) ==
    [kind |-> "object", mid |-> event.mid,
     hasSender |-> ~Falsy(event.sender_ig_id),
     hasRecipient |-> ~Falsy(event.recipient_ig_id),
     hasTimestamp |-> TRUE, timestamp |-> MillisecondsText]

\* status of the answer to a body that is no JSON
InvalidJsonStatus == 400

\* The previous call of forwardToInternalIngestion has ended.
ForwardEnded == webhook.forward \in {"none", "returned", "rejected"}

\* POST(request): an empty text is read as {}; text that is no JSON is
\* answered 'Invalid JSON'; a throw of parseMessagingEvents is answered 200
\* by the outer catch; with events the forward is scheduled on a promise
\* that is not awaited, and the answer is 200 'OK'.
ReceiveWebhook(body) ==
    /\ ForwardEnded
    /\ webhook.calls < MaxWebhooks
    /\ LET call == [IdleWebhook EXCEPT !.state = "answered",
                                       !.calls = webhook.calls + 1,
                                       !.body = body]
       IN webhook' =
            IF body.kind = "garbage"
            THEN [call EXCEPT !.status = InvalidJsonStatus]
            ELSE IF ParseThrows(body)
            THEN [call EXCEPT !.status = 200, !.threw = TRUE]
            ELSE LET events == parseMessagingEvents(body) IN
                 [call EXCEPT !.status = 200, !.events = events,
                              !.forward = IF Len(events) > 0
                                          THEN "scheduled" ELSE "none"]
    /\ UNCHANGED <<ingestVars, now, verifications, confirmations, qmsg,
                   classified, published>>

\* What getBaseUrl() returns: a configured domain, or '' in production with
\* no domain configured.
BaseUrls == {"", "https://app"}

\* if (!baseUrl)
BaseUrlMissingNever(baseUrl) == FALSE
BaseUrlMissing(baseUrl) == baseUrl = ""

\* forwardToInternalIngestion(events) up to its await: without a base URL
\* it throws; otherwise events.map starts one publish per event, and a
\* publish whose getQStashClient() throws for want of QSTASH_TOKEN has
\* failed at once.
StartForward(baseUrl, hasToken) ==
    /\ webhook.forward = "scheduled"
    /\ webhook' =
         IF BaseUrlMissing(baseUrl)
         THEN [webhook EXCEPT !.forward = "rejected", !.baseUrl = baseUrl]
         ELSE [webhook EXCEPT
                 !.forward = "publishing", !.baseUrl = baseUrl,
                 !.publishes = [i \in DOMAIN webhook.events |->
                                  IF hasToken THEN "started" ELSE "failed"]]
    /\ UNCHANGED <<ingestVars, now, verifications, confirmations, qmsg,
                   classified, published>>

\* deduplicationId: `ig_msg_${event.mid}`
DeduplicationIdOfSender(event) == <<"ig_msg_", event.sender_ig_id>>
DeduplicationId(event) == <<"ig_msg_", event.mid>>

\* The queue makes a job of a publish unless it has seen its
\* deduplication id before.
Collapsed(calls, id) == \E i \in DOMAIN calls : calls[i].deduplicationId = id

\* qstash.publishJSON({url, body: event, deduplicationId, ...}) arriving
\* at the queue
PublishJSON(event) ==
    Append(published,
           [deduplicationId |-> DeduplicationId(event), body |-> event,
            enqueued |-> ~Collapsed(published, DeduplicationId(event)),
            taken |-> FALSE])

\* await Promise.race([qstashPublishPromise, timeoutPromise]) of one event:
\* the publish succeeds, fails, or loses against the 3 second timer; the
\* catch logs a failure and does not rethrow.  The timer cancels nothing:
\* a publish that lost the race has reached the queue (arrived) or not.
PublishOutcomes == {"ok", "failed", "timeout"}

SettlePublish(i, outcome, arrived) ==
    /\ webhook.forward = "publishing"
    /\ i \in DOMAIN webhook.publishes
    /\ webhook.publishes[i] = "started"
    /\ webhook' = [webhook EXCEPT !.publishes[i] = outcome]
    /\ published' = IF outcome = "ok" \/ (outcome = "timeout" /\ arrived)
                     THEN PublishJSON(webhook.events[i])
                     ELSE published
    /\ UNCHANGED <<ingestVars, now, verifications, confirmations, qmsg,
                   classified>>

\* await Promise.allSettled(publishPromises)
AllSettledEarly(publishes) ==
    \E i \in DOMAIN publishes : publishes[i] # "started"
AllSettled(publishes) ==
    \A i \in DOMAIN publishes : publishes[i] # "started"

FinishForward ==
    /\ webhook.forward = "publishing"
    /\ AllSettled(webhook.publishes)
    /\ webhook' = [webhook EXCEPT !.forward = "returned"]
    /\ UNCHANGED <<ingestVars, now, verifications, confirmations, qmsg,
                   classified, published>>

\* ------------------------------------------------------- specifications
\* The queue consumer: concurrent, repeated deliveries of the events to
\* handleIncomingMessagingEvent.
Next ==
    \/ \E p \in Procs, mid \in Mids : StartHandle(p, mid)
    \/ \E p \in Procs : UpsertProfile(p)
    \/ \E p \in Procs : InsertMessage(p)
    \/ \E p \in Procs : FetchExisting(p)
    \/ \E p \in Procs : CreateToken(p)
    \/ \E p \in Procs : TrackOutbound(p)
    \/ \E p \in Procs : SendDM(p)
    \/ \E p \in Procs : UpdateSent(p)
    \/ \E p \in Procs : UpdateFailure(p)
    \/ \E p \in Procs : Enqueue(p)
    \/ \E p \in Procs : MarkProcessed(p)

Spec == Init /\ [][Next]_vars

\* The internal routes that drive the outbound delivery engine directly.
NextDelivery ==
    \/ \E p \in Procs, req \in SendDmRequests : StartSendDm(p, req)
    \/ \E p \in Procs, req \in SendVerificationRequests :
          StartSendVerificationDm(p, req)
    \/ \E p \in Procs : TrackOutbound(p)
    \/ \E p \in Procs : SendDM(p)
    \/ \E p \in Procs : UpdateSent(p)
    \/ \E p \in Procs : UpdateFailure(p)

SpecDelivery == Init /\ [][NextDelivery]_vars

\* The account-linking route, started after every delivery of the budget
\* was a delivery of m1 (sender u1, not linked) handled without a fault at
\* time 0: each of them created a verification token for u1 and sent its DM.
InitVerify ==
    /\ profiles = [ig \in IgIds |->
                     IF ig = "u2"
                     THEN ConnectedProfileRow("u2", "a1")
                     ELSE NewProfileRow("u1")]
    /\ messages = [m \in Mids |->
                     IF m = "m1"
                     THEN <<[id |-> "m1", sender_ig_id |-> "u1",
                             recipient_ig_id |-> "page",
                             attachments |-> EventOf("m1").attachments,
                             received_at |-> ReceivedAt(SecondsText),
                             processed |-> FALSE]>>
                     ELSE <<>>]
    /\ tokens = [t \in Ids |->
                   [token_hash |-> Sha256(t), ig_id |-> "u1",
                    expires_at |-> TokenTtlMs, consumed |-> FALSE,
                    created_by_event_id |-> "m1"]]
    /\ outbound = [i \in Ids |->
                     [recipient_ig_id |-> "u1", kind |-> "verification",
                      payload |-> [text |-> VerificationText(i, "u1")],
                      status |-> "sent", attempts |-> 1,
                      remote_message_id |-> RemoteId(i, 1), error |-> NULL]]
    /\ media = {}
    /\ platform = [i \in Ids |-> [attempts |-> 1, delivered |-> 1]]
    /\ h = [p \in Procs |-> IdleLocals]
    /\ invocations = MaxInvocations
    /\ faults = 0
    /\ now = 0
    /\ verifications = 0
    /\ confirmations = [t \in Ids |-> 0]
    /\ qmsg = NoQueueMessage
    /\ classified = NotClassified
    /\ webhook = IdleWebhook
    /\ published = <<>>

NextVerify ==
    \/ \E p \in Procs, req \in VerifyRequests : StartVerify(p, req)
    \/ \E p \in Procs : LookupToken(p)
    \/ \E p \in Procs : ConsumeToken(p)
    \/ \E p \in Procs : LinkProfile(p)
    \/ Tick

SpecVerify == InitVerify /\ [][NextVerify]_vars

\* The consumer endpoint behind the queue, one delivery at a time.
ConsumerProcs == {1}

NextConsumer ==
    \/ \E body \in ConsumerBodies : PublishToQueue(body)
    \/ \E p \in ConsumerProcs : ConsumeDelivery(p)
    \/ \E p \in ConsumerProcs : UpsertProfile(p)
    \/ \E p \in ConsumerProcs : InsertMessage(p)
    \/ \E p \in ConsumerProcs : FetchExisting(p)
    \/ \E p \in ConsumerProcs : CreateToken(p)
    \/ \E p \in ConsumerProcs : TrackOutbound(p)
    \/ \E p \in ConsumerProcs : SendDM(p)
    \/ \E p \in ConsumerProcs : UpdateSent(p)
    \/ \E p \in ConsumerProcs : UpdateFailure(p)
    \/ \E p \in ConsumerProcs : Enqueue(p)
    \/ \E p \in ConsumerProcs : MarkProcessed(p)
    \/ \E p \in ConsumerProcs : Respond(p)
    \/ QueueReacts

SpecConsumer == Init /\ [][NextConsumer]_vars

\* isRetryableError applied to an error value.
InitClassify ==
    /\ profiles = [ig \in IgIds |->
                     IF ig = "u2"
                     THEN ConnectedProfileRow("u2", "a1")
                     ELSE NoProfile]
    /\ messages = [m \in Mids |-> <<>>]
    /\ tokens = [t \in Ids |-> NoToken]
    /\ outbound = [i \in Ids |-> NoOutbound]
    /\ media = {}
    /\ platform = [i \in Ids |-> [attempts |-> 0, delivered |-> 0]]
    /\ h = [p \in Procs |-> IdleLocals]
    /\ invocations = 0
    /\ faults = 0
    /\ now = 0
    /\ verifications = 0
    /\ confirmations = [t \in Ids |-> 0]
    /\ qmsg = NoQueueMessage
    /\ classified \in {[state |-> "thrown", error |-> e,
                         retryable |-> FALSE] : e \in Errors}
    /\ webhook = IdleWebhook
    /\ published = <<>>

NextClassify == Classify

SpecClassify == InitClassify /\ [][NextClassify]_vars

\* Concurrent calls of storeMediaItems.
NextStoreMedia ==
    \/ \E p \in Procs, req \in StoreMediaRequests : StartStoreMedia(p, req)
    \/ \E p \in Procs : CheckMedia(p)
    \/ \E p \in Procs : InsertMedia(p)

SpecMedia == Init /\ [][NextStoreMedia]_vars

\* One invocation of handle at a time, against a platform that may leave a
\* send call unanswered.  A store call that is left unanswered is aborted
\* by the client's fetch after 12 seconds and comes back as a rejection,
\* which is one of StoreOutcomes.
HangProcs == {1}

\* The continuations of the awaits of invocation p.
HandleStep(p) ==
    \/ UpsertProfile(p)
    \/ InsertMessage(p)
    \/ FetchExisting(p)
    \/ CreateToken(p)
    \/ TrackOutbound(p)
    \/ SendDM(p)
    \/ UpdateSent(p)
    \/ UpdateFailure(p)
    \/ Enqueue(p)
    \/ MarkProcessed(p)

NextHang ==
    \/ \E p \in HangProcs, mid \in Mids : StartHandle(p, mid)
    \/ \E p \in HangProcs : HandleStep(p)
    \/ \E p \in HangProcs : SendHangs(p)

\* The event loop runs the continuation of every await that has settled.
SpecHang ==
    Init /\ [][NextHang]_vars /\ \A p \in HangProcs : WF_vars(HandleStep(p))

\* extractMediaFromAttachments applied to a value of event.attachments.
InitExtract ==
    /\ profiles = [ig \in IgIds |->
                     IF ig = "u2"
                     THEN ConnectedProfileRow("u2", "a1")
                     ELSE NoProfile]
    /\ messages = [m \in Mids |-> <<>>]
    /\ tokens = [t \in Ids |-> NoToken]
    /\ outbound = [i \in Ids |-> NoOutbound]
    /\ media = {}
    /\ platform = [i \in Ids |-> [attempts |-> 0, delivered |-> 0]]
    /\ \E a \in AttachmentValues :
          h = [p \in Procs |->
                 IF p = 1
                 THEN [IdleLocals EXCEPT !.op = "extract", !.pc = "extract",
                                         !.attachments = a]
                 ELSE IdleLocals]
    /\ invocations = 0
    /\ faults = 0
    /\ now = 0
    /\ verifications = 0
    /\ confirmations = [t \in Ids |-> 0]
    /\ qmsg = NoQueueMessage
    /\ classified = NotClassified
    /\ webhook = IdleWebhook
    /\ published = <<>>

NextExtract == \E p \in Procs : Extract(p)

SpecExtract == InitExtract /\ [][NextExtract]_vars

\* parseMessagingEvents applied to a decoded body.
InitParse ==
    /\ profiles = [ig \in IgIds |->
                     IF ig = "u2"
                     THEN ConnectedProfileRow("u2", "a1")
                     ELSE NoProfile]
    /\ messages = [m \in Mids |-> <<>>]
    /\ tokens = [t \in Ids |-> NoToken]
    /\ outbound = [i \in Ids |-> NoOutbound]
    /\ media = {}
    /\ platform = [i \in Ids |-> [attempts |-> 0, delivered |-> 0]]
    /\ h = [p \in Procs |-> IdleLocals]
    /\ invocations = 0
    /\ faults = 0
    /\ now = 0
    /\ verifications = 0
    /\ confirmations = [t \in Ids |-> 0]
    /\ qmsg = NoQueueMessage
    /\ classified = NotClassified
    /\ webhook \in {[IdleWebhook EXCEPT !.state = "decoded", !.body = b] :
                       b \in {w \in WebhookBodies : w.kind # "garbage"}}
    /\ published = <<>>

NextParse == ParseBody

SpecParse == InitParse /\ [][NextParse]_vars

\* The webhook requests and the forwarding they start.
NextWebhook ==
    \/ \E body \in DeliveredBodies : ReceiveWebhook(body)
    \/ \E baseUrl \in BaseUrls, hasToken \in BOOLEAN :
          StartForward(baseUrl, hasToken)
    \/ \E i \in DOMAIN webhook.publishes, outcome \in PublishOutcomes,
             arrived \in BOOLEAN :
          SettlePublish(i, outcome, arrived)
    \/ FinishForward

SpecWebhook == Init /\ [][NextWebhook]_vars

\* The requests of the platform that the pipeline is followed for: a
\* message of the unlinked sender u1, a message of the linked sender u2,
\* a message that names no sender, and a JSON null.
PipelineBodies ==
    {[NoWebhookBody EXCEPT
         !.kind = "object", !.object = "instagram", !.hasEntry = TRUE,
         !.entry = <<[NoEntry EXCEPT !.isArray = TRUE,
                                     !.messaging = <<m>>]>>] :
         m \in {TextMessage("m1", "u1"), TextMessage("m2", "u2"),
                [TextMessage("m1", NULL) EXCEPT !.hasTimestamp = FALSE]}}
    \cup {[NoWebhookBody EXCEPT !.kind = "null"]}

\* The queue delivers a job it has accepted: the next job that it has not
\* handed to the consumer endpoint yet, once the one before is settled.
TakeJob(k) ==
    /\ qmsg.state \in {"none", "settled"}
    /\ k \in DOMAIN published
    /\ published[k].enqueued /\ ~published[k].taken
    /\ published' = [published EXCEPT ![k].taken = TRUE]
    /\ qmsg' = [NoQueueMessage EXCEPT
                  !.state = "queued", !.body = QueueBodyOf(published[k].body)]
    /\ UNCHANGED <<ingestVars, now, verifications, confirmations,
                   classified, webhook>>

\* The steps of the forward that a webhook request started.
ForwardStep ==
    \/ \E baseUrl \in BaseUrls, hasToken \in BOOLEAN :
          StartForward(baseUrl, hasToken)
    \/ \E i \in DOMAIN webhook.publishes, outcome \in PublishOutcomes,
             arrived \in BOOLEAN :
          SettlePublish(i, outcome, arrived)
    \/ FinishForward

\* The steps of the queue and of the consumer endpoint it calls.
QueueStep ==
    \/ \E k \in DOMAIN published : TakeJob(k)
    \/ \E p \in ConsumerProcs : ConsumeDelivery(p)
    \/ \E p \in ConsumerProcs : HandleStep(p)
    \/ \E p \in ConsumerProcs : Respond(p)
    \/ QueueReacts

\* The platform's requests are followed one at a time: the next one
\* arrives when the queue holds no job that is still to be delivered or
\* answered.
PlatformSends(body) ==
    /\ qmsg.state \in {"none", "settled"}
    /\ \A k \in DOMAIN published :
          published[k].enqueued => published[k].taken
    /\ ReceiveWebhook(body)

\* From the webhook request to the message row: the webhook route, the
\* queue and the consumer endpoint together.
NextPipeline ==
    \/ \E body \in PipelineBodies : PlatformSends(body)
    \/ ForwardStep
    \/ QueueStep

\* The event loop runs every continuation that is due, the queue delivers
\* every job it holds, and the store rejects at most MaxFaults calls.
SpecPipeline ==
    Init /\ [][NextPipeline]_vars /\ WF_vars(ForwardStep) /\ WF_vars(QueueStep)

\* ------------------------------------------------------------ properties
\* Some stored row with this mid has processed = true.
Processed(rows, mid) == \E i \in DOMAIN rows[mid] : rows[mid][i].processed

\* The invocation of handler p is a handle that has read its profile row.
ReadProfile(p) == h[p].op = "handle" /\ h[p].profileRow.ig_id # NULL

\* The DM function called by the invocation of handler p has ended.
DmEnded(p) == h[p].dm \in {"returned", "raised"}

\* C1 as stated: the message store never holds two rows with the same mid,
\* and an insertMessageIfNotExists call for a stored mid inserts nothing,
\* does not raise and returns the stored row.
C1_ConflictStep(p) ==
    /\ (/\ h[p].pc = "insert"
        /\ h'[p].pc # "insert"
        /\ messages[h[p].mid] # <<>>)
       => (h'[p].pc = "fetch" /\ messages' = messages)
    /\ (/\ h[p].pc = "fetch"
        /\ h'[p].pc # "fetch")
       => (/\ h'[p].result # "raised"
           /\ h'[p].messageRow = messages[h[p].mid][1]
           /\ messages' = messages)

C1_ConflictNeverRaises ==
    /\ [](\A m \in Mids : Len(messages[m]) <= 1)
    /\ [][\A p \in Procs : C1_ConflictStep(p)]_vars

\* C1 amended: the message store never holds two rows with the same mid; an
\* insertMessageIfNotExists call for a stored mid inserts nothing and
\* returns the stored row when the store answers its insert and its fetch,
\* and raises, still inserting nothing, when the store rejects either.
C1_InsertStep(p) ==
    /\ (/\ h[p].pc = "insert"
        /\ h'[p].pc # "insert"
        /\ messages[h[p].mid] # <<>>)
       => /\ messages' = messages
          /\ IF faults' = faults
             THEN h'[p].pc = "fetch"
             ELSE h'[p].result = "raised"
    /\ (/\ h[p].pc = "fetch"
        /\ h'[p].pc # "fetch")
       => /\ messages' = messages
          /\ IF faults' = faults
             THEN /\ h'[p].result # "raised"
                  /\ h'[p].messageRow = messages[h[p].mid][1]
             ELSE h'[p].result = "raised"

C1_OneRowPerMid ==
    /\ [](\A m \in Mids : Len(messages[m]) <= 1)
    /\ [][\A p \in Procs : C1_InsertStep(p)]_vars

\* Two concurrent deliveries of one mid: one inserted the row, the other hit
\* the conflict and holds the stored row.
C1_Witness ==
    \E p, q \in Procs :
        /\ p # q
        /\ h[p].mid = h[q].mid
        /\ h[p].dup
        /\ h[p].messageRow.id = h[p].mid
        /\ ~h[q].dup
        /\ h[q].messageRow.id = h[q].mid
        /\ h[p].pc # "done"
        /\ h[q].pc # "done"

\* C2: with the deliveries run one after the other (the second handler is
\* never needed), no event has more than one VerificationToken and no
\* unverified sender is sent verification DMs carrying different tokens.
TokensOf(mid) == {t \in Ids : tokens[t].created_by_event_id = mid}

VerificationSends(ig) ==
    {i \in Ids : /\ outbound[i].kind = "verification"
                 /\ outbound[i].recipient_ig_id = ig
                 /\ platform[i].attempts > 0}

C2_SecondHandleCreatesNothing ==
    h[2].pc = "idle" =>
        \A m \in Mids :
            /\ Len(messages[m]) <= 1
            /\ Cardinality(TokensOf(m)) <= 1
            /\ Cardinality(VerificationSends(EventOf(m).sender_ig_id)) <= 1

\* C3 as stated: a DM function none of whose platform sends was delivered
\* has made 3 sends, left its row with attempts = 3 and status failed, and
\* raised the platform error.
Exhausted(p) ==
    LET oid == h[p].outboundMessageId IN
    /\ platform[oid].attempts = 3
    /\ outbound[oid].attempts = 3
    /\ outbound[oid].status = "failed"
    /\ h[p].dm = "raised"
    /\ h[p].dmError = "Instagram API error"

C3_AlwaysThreeAttempts ==
    \A p \in Procs :
        (/\ DmEnded(p)
         /\ h[p].outboundMessageId # 0
         /\ platform[h[p].outboundMessageId].delivered = 0)
        => Exhausted(p)

\* C3 amended: the same, for a DM function all of whose store calls were
\* accepted; one whose row update was rejected has raised the store error
\* at once, with the row still pending and one attempt behind the sends.
C3_ThreeAttemptsWhenStoreAccepts ==
    \A p \in Procs :
        (/\ DmEnded(p)
         /\ h[p].outboundMessageId # 0
         /\ platform[h[p].outboundMessageId].delivered = 0)
        => IF ~h[p].dmFault
           THEN Exhausted(p)
           ELSE LET oid == h[p].outboundMessageId IN
                /\ h[p].dm = "raised"
                /\ h[p].dmError = "Failed to update outbound message"
                /\ outbound[oid].status = "pending"
                /\ platform[oid].attempts <= 3
                /\ outbound[oid].attempts = platform[oid].attempts - 1

C3_Witness ==
    \E p \in Procs :
        /\ DmEnded(p)
        /\ ~h[p].dmFault
        /\ h[p].outboundMessageId # 0
        /\ platform[h[p].outboundMessageId].delivered = 0
        /\ h[p].waits = <<1000, 2000>>

\* C4: once the platform has accepted a send for an outbound row it gets no
\* further send for that row, and the DM function that recorded the success
\* returns, whatever the store answers to the status = sent update.
C4_NoSendAfterSuccess ==
    [][/\ \A i \in Ids :
            platform[i].delivered >= 1 =>
                platform'[i].attempts = platform[i].attempts
       /\ \A p \in Procs :
            (h[p].pc = "update_sent" /\ h'[p].pc # "update_sent")
                => h'[p].dm = "returned"]_vars

\* C5: an outbound row's status goes from pending to sent or to failed and
\* then stays; a sent row has had a send delivered and a failed row has had
\* 3 sends made.
C5_StatusMove(i) ==
    outbound'[i].status # outbound[i].status =>
        \/ outbound[i].status = "none" /\ outbound'[i].status = "pending"
        \/ /\ outbound[i].status = "pending"
           /\ outbound'[i].status \in {"sent", "failed"}

C5_StatusOneWay ==
    /\ [](\A i \in Ids :
            /\ outbound[i].status = "sent" => platform[i].delivered >= 1
            /\ outbound[i].status = "failed" => platform[i].attempts = 3)
    /\ [][\A i \in Ids : C5_StatusMove(i)]_vars

C5_Witness ==
    \E i, j \in Ids :
        /\ outbound[i].status = "sent"
        /\ outbound[i].attempts = 2
        /\ outbound[j].status = "failed"

\* C6 as stated: whenever no send of a row is waiting to be recorded (its DM
\* function is about to send, or has ended), the row's attempts equals the
\* number of platform sends made for it.
C6_AttemptsEqualSends ==
    \A p \in Procs :
        (h[p].outboundMessageId # 0 /\ (DmEnded(p) \/ h[p].pc = "send"))
        => outbound[h[p].outboundMessageId].attempts
               = platform[h[p].outboundMessageId].attempts

\* C6 amended: attempts never decreases, is never more than the number of
\* sends made and never more than one behind it, and every accepted update
\* of the row sets it to the number of sends made.
C6_AttemptsTrackSends ==
    /\ [](\A i \in Ids :
            /\ outbound[i].attempts <= platform[i].attempts
            /\ platform[i].attempts <= outbound[i].attempts + 1)
    /\ [][\A i \in Ids :
            /\ outbound'[i].attempts >= outbound[i].attempts
            /\ (outbound[i].status # "none" /\ outbound'[i] # outbound[i])
                   => outbound'[i].attempts = platform[i].attempts]_vars

C6_Witness ==
    \E i \in Ids :
        /\ outbound[i].attempts = 3
        /\ platform[i].attempts = 3
        /\ outbound[i].status = "sent"

\* C7: processed never goes back to false, and it becomes true only by the
\* step of a handle that read a linked profile and got ok from the hand-off.
C7_ProcessedStep(m) ==
    /\ Len(messages'[m]) >= Len(messages[m])
    /\ \A i \in DOMAIN messages[m] :
         /\ messages[m][i].processed => messages'[m][i].processed
         /\ (~messages[m][i].processed /\ messages'[m][i].processed) =>
               \E p \in Procs :
                   /\ h[p].op = "handle"
                   /\ h[p].mid = m
                   /\ h[p].pc = "mark"
                   /\ h'[p].pc = "done"
                   /\ h[p].profileRow.connected_user_id # NULL
                   /\ h[p].enqueueResult.called
                   /\ h[p].enqueueResult.ok

C7_ProcessedOneWay == [][\A m \in Mids : C7_ProcessedStep(m)]_vars

\* A redelivery of a processed message has run its insert again: the row is
\* still the processed one.
C7_Witness ==
    \E p \in Procs :
        /\ h[p].dup
        /\ h[p].messageRow.processed
        /\ h[p].pc = "done"
        /\ messages[h[p].mid][1].processed

\* C8: a handle that read a profile with connected_user_id = null never
\* performs the hand-off, never marks a message processed, never stores
\* media and never sends an acknowledgement.
Unverified(p) ==
    ReadProfile(p) /\ h[p].profileRow.connected_user_id = NULL

C8_UnverifiedStep(p) ==
    (Unverified(p) /\ h'[p] # h[p]) =>
        /\ media' = media
        /\ \A m \in Mids : Processed(messages', m) = Processed(messages, m)
        /\ \A i \in Ids :
             outbound'[i] # outbound[i] => outbound'[i].kind = "verification"

C8_UnverifiedBranch ==
    /\ [](\A p \in Procs :
            Unverified(p) =>
                /\ h[p].pc \notin {"enqueue", "mark"}
                /\ ~h[p].enqueueResult.called
                /\ h[p].kind \in {"none", "verification"})
    /\ [][\A p \in Procs : C8_UnverifiedStep(p)]_vars

\* An unverified sender's event with a reel attached has been handled: the
\* token exists, the verification DM went out, nothing else happened.
C8_Witness ==
    \E p \in Procs :
        /\ Unverified(p)
        /\ h[p].pc = "done"
        /\ h[p].result = "success"
        /\ extractMediaFromAttachments(EventOf(h[p].mid).attachments) # <<>>
        /\ h[p].tokenPlain # 0
        /\ tokens[h[p].tokenPlain].created_by_event_id = h[p].mid
        /\ h[p].outboundMessageId # 0
        /\ platform[h[p].outboundMessageId].delivered = 1
        /\ ~Processed(messages, h[p].mid)

\* C9 as stated: a handle that read a linked profile and performed the
\* hand-off reports success, with the message processed exactly if the
\* hand-off answered ok.
C9_VerifiedAlwaysSucceeds ==
    \A p \in Procs :
        (h[p].pc = "done" /\ h[p].enqueueResult.called) =>
            /\ h[p].result = "success"
            /\ Processed(messages, h[p].mid) = h[p].enqueueResult.ok

\* C9 amended: after an ok hand-off the processed update is issued; if the
\* store accepts it the message is processed and handle reports success, if
\* the store rejects it handle raises and writes nothing.  After a not-ok
\* hand-off handle reports success and leaves the flag as it was.
C9_HandOffStep(p) ==
    /\ (h[p].pc = "enqueue" /\ h'[p].pc # "enqueue") =>
          /\ messages' = messages
          /\ h'[p].enqueueResult.called
          /\ IF h'[p].enqueueResult.ok
             THEN h'[p].pc = "mark"
             ELSE h'[p].pc = "done" /\ h'[p].result = "success"
    /\ (h[p].pc = "mark" /\ h'[p].pc # "mark") =>
          /\ h'[p].pc = "done"
          /\ IF faults' = faults
             THEN /\ h'[p].result = "success"
                  /\ Processed(messages', h[p].mid)
             ELSE /\ h'[p].result = "raised"
                  /\ messages' = messages

C9_HandOffDecidesProcessed ==
    /\ [](\A p \in Procs :
            (/\ h[p].pc = "done"
             /\ h[p].enqueueResult.called
             /\ h[p].enqueueResult.ok
             /\ h[p].result = "success")
            => Processed(messages, h[p].mid))
    /\ [][\A p \in Procs : C9_HandOffStep(p)]_vars

C9_Witness ==
    \E p, q \in Procs :
        /\ h[p].pc = "done"
        /\ h[p].enqueueResult.ok
        /\ h[p].result = "success"
        /\ Processed(messages, h[p].mid)
        /\ h[q].pc = "done"
        /\ h[q].enqueueResult.called
        /\ ~h[q].enqueueResult.ok
        /\ h[q].result = "success"

\* C10: after a handle that read a linked profile has reported success, a
\* media row exists for (connected_user_id, media_id) of every reel or post
\* its event carries.
C10_MediaStoredForVerified ==
    \A p \in Procs :
        (/\ ReadProfile(p)
         /\ h[p].profileRow.connected_user_id # NULL
         /\ h[p].pc = "done"
         /\ h[p].result = "success")
        => LET items ==
                   extractMediaFromAttachments(EventOf(h[p].mid).attachments)
           IN \A k \in DOMAIN items :
                  \E r \in media :
                      /\ r.owner_user_id = h[p].profileRow.connected_user_id
                      /\ r.media_id = items[k].media_id

\* C11: a consume whose lookup runs after a consume of the same secret has
\* answered 200 is refused, and a token's consumed flag never goes back to
\* false.
C11_LaterConsumeFails ==
    [][/\ \A p \in Procs :
            (/\ h[p].op = "verify"
             /\ h[p].pc = "lookup"
             /\ h'[p].pc # "lookup"
             /\ h[p].tokenPlain \in Ids
             /\ confirmations[h[p].tokenPlain] >= 1)
            => h'[p].result = "400"
       /\ \A t \in Ids : tokens[t].consumed => tokens'[t].consumed]_vars

\* C12: when the store rejects nothing, no secret gets more than one 200
\* answer, however the lookups and updates of two requests interleave.
C12_AtMostOneSuccess ==
    faults = 0 => \A t \in Ids : confirmations[t] <= 1

C14_LinkIsImmutable ==
    [][(h[2].pc = "idle" /\ faults' = 0) =>
          \A ig \in IgIds :
              profiles[ig].connected_user_id # NULL =>
                  profiles'[ig].connected_user_id
                      = profiles[ig].connected_user_id]_vars

\* C15: no outbound row holds a plaintext secret in its payload, and no
\* token row holds one in place of its hash.
C15_SecretNeverPersisted ==
    /\ \A i \in Ids : outbound[i].payload.text.token = 0
    /\ \A t \in Ids :
          tokens[t].token_hash # <<>> => tokens[t].token_hash = Sha256(t)

\* C17: the consumer endpoint answers 400 without invoking handle when a
\* required field is missing, 200 when handle succeeds, 500 when handle
\* raises an error classified retryable and 400 when it raises one
\* classified permanent; the queue redelivers after a 500 and settles the
\* message after a 200 or a 400.
C17_AnswerStep ==
    /\ (/\ qmsg.state = "queued"
        /\ qmsg'.state # "queued"
        /\ qmsg.body.kind = "object"
        /\ \/ qmsg.body.mid = NULL
           \/ ~qmsg.body.hasSender
           \/ ~qmsg.body.hasRecipient
           \/ ~qmsg.body.hasTimestamp)
       => (/\ qmsg'.state = "answered"
           /\ qmsg'.status = 400
           /\ UNCHANGED ingestVars)
    /\ (qmsg.state = "handling" /\ qmsg'.state # "handling")
       => /\ qmsg'.state = "answered"
          /\ h[1].result = "success" => qmsg'.status = 200
          /\ (h[1].result = "raised" /\ isRetryableError(qmsg'.error))
                => qmsg'.status = 500
          /\ (h[1].result = "raised" /\ ~isRetryableError(qmsg'.error))
                => qmsg'.status = 400
    /\ (qmsg.state = "answered" /\ qmsg'.state # "answered")
       => /\ qmsg.status \in {200, 400} => qmsg'.state = "settled"
          /\ qmsg.status = 500 => qmsg'.state = "queued"
    /\ qmsg'.deliveries > qmsg.deliveries
       => (qmsg.deliveries = 0 \/ qmsg.status = 500)

C18_PriorityOrder ==
    classified.state = "classified" =>
        LET e == classified.error
            timeout == e.hasMessage
                       /\ ("timeout" \in e.message
                           \/ "timed out" \in e.message)
            network == e.name = "FetchError" \/ e.name = "NetworkError"
            validation == e.hasMessage
                          /\ ("Invalid" \in e.message
                              \/ "validation" \in e.message)
            auth == e.hasMessage
                    /\ ("Unauthorized" \in e.message
                        \/ "authentication" \in e.message)
        IN classified.retryable =
               IF timeout THEN TRUE
               ELSE IF network THEN TRUE
               ELSE IF validation THEN FALSE
               ELSE IF auth THEN FALSE
               ELSE TRUE

\* An error whose message indicates both a timeout and a validation failure
\* was classified retryable.
C18_Witness ==
    /\ classified.state = "classified"
    /\ classified.error.message = {"timed out", "Invalid", "Unauthorized"}
    /\ classified.error.name = "Error"
    /\ classified.retryable

\* C19: a delivery whose body cannot be decoded as an event is answered
\* with a status that stops redelivery, never with 500.
C19_MalformedIsTerminal ==
    (/\ qmsg.state = "answered"
     /\ qmsg.body.kind \in {"garbage", "null"})
    => qmsg.status # 500

\* C16: every webhook request is answered 200.
C16_AlwaysOk ==
    webhook.state = "answered" => webhook.status = 200

\* C20: no event is emitted for a message flagged as an echo.  The mid of
\* an echo in WebhookMsgs is the mid of no other message, so an emitted
\* event stems from an echo exactly if it carries an echo's mid.
EchoMids(body) ==
    {body.value.mid : x \in {y \in {body.value} :
                                y.hasMessage /\ y.is_echo}}
    \cup UNION {{e.messaging[i].mid :
                    i \in {j \in DOMAIN e.messaging :
                              /\ e.messaging[j].hasMessage
                              /\ e.messaging[j].is_echo}} :
                e \in {body.entry[k] : k \in DOMAIN body.entry}}

C20_NoEventForEcho ==
    webhook.state = "answered" =>
        \A i \in DOMAIN webhook.events :
            webhook.events[i].mid \notin EchoMids(webhook.body)

\* The elements of the messaging arrays of a payload in the standard
\* shape, in the order of the payload.
RECURSIVE MessagingOf(_, _)
MessagingOf(entries, k) ==
    IF k > Len(entries) THEN <<>>
    ELSE (IF entries[k].isArray THEN entries[k].messaging ELSE <<>>)
         \o MessagingOf(entries, k + 1)

\* A message that is no echo and carries a platform message id.
CarriesMid(msg) == msg.hasMessage /\ msg.mid # NULL /\ msg.mid # ""

IsContent(msg) == CarriesMid(msg) /\ ~msg.is_echo

\* parseMessagingEvents has returned.
Parsed == webhook.state = "parsed" /\ ~webhook.threw

\* C21: every emitted event carries a non-empty mid; a payload in the
\* standard shape yields one event per non-echo messaging element that
\* carries a mid, in order and with that mid, and none for the others; a
\* single-event payload yields one event for a non-echo message with a
\* mid and none for a receipt.
C21_OneEventPerContentMessage ==
    Parsed =>
      LET body == webhook.body
          events == webhook.events
          content == SelectSeq(MessagingOf(body.entry, 1), IsContent)
      IN /\ \A i \in DOMAIN events : events[i].mid \notin {NULL, ""}
         /\ (body.object = "instagram" /\ body.hasEntry) =>
               /\ Len(events) = Len(content)
               /\ \A i \in DOMAIN events : events[i].mid = content[i].mid
         /\ (body.field = "messages" /\ body.hasValue
                /\ ~body.value.is_echo) =>
               /\ Len(events) = IF IsContent(body.value) THEN 1 ELSE 0
               /\ \A i \in DOMAIN events : events[i].mid = body.value.mid

\* A payload with a message, a receipt beside it, and one event for the
\* message; and a receipt alone made no event.
C21_Witness ==
    /\ Parsed
    /\ webhook.body.object = "instagram"
    /\ Len(webhook.body.entry) = 1
    /\ Len(webhook.body.entry[1].messaging) = 2
    /\ webhook.body.entry[1].messaging[1] = TextMessage("m1", "u1")
    /\ ~webhook.body.entry[1].messaging[2].hasMessage
    /\ ~webhook.body.entry[1].messaging[2].isNull
    /\ Len(webhook.events) = 1
    /\ webhook.events[1].mid = "m1"

\* C22: parseMessagingEvents returns a list for every decoded body: it
\* never throws.
C22_ParseNeverThrows ==
    webhook.state = "parsed" => ~webhook.threw

\* C23 as stated: forwardToInternalIngestion never throws to its caller.
C23_NeverThrows == webhook.forward # "rejected"

\* C23: forwardToInternalIngestion throws to its caller exactly when
\* getBaseUrl() gave no base URL, and then before any publish; once the
\* publishes are started, a failed publish, a timed-out publish and a
\* missing QSTASH_TOKEN never make it throw.
C23_ThrowsOnlyWithoutBaseUrl ==
    [][/\ (webhook.forward = "scheduled" /\ webhook'.forward # "scheduled")
          => /\ webhook'.forward \in {"rejected", "publishing"}
             /\ webhook'.forward = "rejected" <=> webhook'.baseUrl = ""
             /\ webhook'.forward = "rejected" => webhook'.publishes = <<>>
       /\ webhook.forward = "publishing"
          => webhook'.forward \in {"publishing", "returned"}]_vars

\* A call that returned although one publish failed and one timed out.
C23_Witness ==
    /\ webhook.forward = "returned"
    /\ \E i, j \in DOMAIN webhook.publishes :
          /\ webhook.publishes[i] = "failed"
          /\ webhook.publishes[j] = "timeout"

\* C24 as stated: when the call has ended, a publish was started for every
\* event and every one of them has settled.
C24_AllStartedAllSettled ==
    webhook.forward \in {"returned", "rejected"} =>
        /\ Len(webhook.publishes) = Len(webhook.events)
        /\ \A i \in DOMAIN webhook.publishes :
              webhook.publishes[i] \in PublishOutcomes

\* C24: with a base URL, the call starts one publish per decoded event,
\* returns only when every one of them has succeeded, failed or timed out,
\* and the settling of one publish, failure included, leaves every other
\* publish as it was; without a base URL it ends with no publish started.
C24_SettledBeforeReturn ==
    [][/\ webhook'.forward \in {"publishing", "returned"}
          => /\ webhook'.baseUrl # ""
             /\ DOMAIN webhook'.publishes = DOMAIN webhook'.events
       /\ webhook'.forward = "returned"
          => \A i \in DOMAIN webhook'.publishes :
                webhook'.publishes[i] \in {"ok", "failed", "timeout"}
       /\ (webhook.forward = "publishing" /\ webhook'.forward = "publishing")
          => \E i \in DOMAIN webhook.publishes :
                /\ webhook.publishes[i] = "started"
                /\ webhook'.publishes[i] # "started"
                /\ \A j \in DOMAIN webhook.publishes \ {i} :
                      webhook'.publishes[j] = webhook.publishes[j]
       /\ webhook'.forward = "rejected"
          => webhook'.baseUrl = "" /\ webhook'.publishes = <<>>]_vars

\* A call of two events that returned after the publish of the first had
\* failed and the publish of the second had succeeded.
C24_Witness ==
    /\ webhook.forward = "returned"
    /\ Len(webhook.events) = 2
    /\ webhook.publishes = <<"failed", "ok">>
    /\ \E k \in DOMAIN published : published[k].body = webhook.events[2]

\* C25: when the webhook request has been answered, no publish of an event
\* decoded from it is still to be started or still running.
C25_NoPublishAfterResponse ==
    webhook.state = "answered" =>
        webhook.forward \notin {"scheduled", "publishing"}

\* C26: two publishes carry the same deduplication id exactly if their
\* events carry the same mid, and the queue, which collapses equal ids,
\* holds at most one job per mid however often the mid is published.
C26_KeyIsFunctionOfMid ==
    \A i, j \in DOMAIN published :
        /\ published[i].deduplicationId = published[j].deduplicationId
           <=> published[i].body.mid = published[j].body.mid
        /\ (/\ i # j
            /\ published[i].body.mid = published[j].body.mid)
           => ~(published[i].enqueued /\ published[j].enqueued)

\* The same mid published by two webhook deliveries with one job made of
\* it, beside a job for another mid.
C26_Witness ==
    /\ webhook.calls = 2
    /\ \E i, j, k \in DOMAIN published :
          /\ i < j
          /\ published[i].body.mid = published[j].body.mid
          /\ published[i].enqueued /\ ~published[j].enqueued
          /\ published[k].body.mid # published[i].body.mid
          /\ published[k].enqueued

\* C27: every invocation of handle that has started eventually returns or
\* raises, whatever the platform and the store do.
C27_HandleEventuallyEnds ==
    \A p \in HangProcs :
        (h[p].pc \notin {"idle", "done"}) ~> (h[p].pc = "done")

\* The DM function called by a handle invocation of handler p has raised:
\* the tracking row was refused, an update of it was refused, or the last
\* send attempt failed.
DmFailed(p) == h[p].op = "handle" /\ h[p].dm = "raised"

\* C28 as stated: a handle whose DM function raised has its Message row in
\* the store and returns success.
C28_DmFailureStillSuccess ==
    \A p \in Procs :
        (DmFailed(p) /\ h[p].pc = "done") =>
            /\ h[p].result = "success"
            /\ messages[h[p].mid] # <<>>

\* C28 amended: the raise of the DM function is swallowed.  On the
\* unverified branch handle returns success at once; on the verified branch
\* it goes on to the hand-off, and it returns success unless the processed
\* update that follows an ok hand-off is rejected, which it raises.  The
\* Message row is in the store throughout.
C28_DmStep(p) ==
    (h[p].op = "handle" /\ h[p].dm # "raised" /\ h'[p].dm = "raised") =>
        IF h[p].kind = "verification"
        THEN h'[p].pc = "done" /\ h'[p].result = "success"
        ELSE h'[p].pc = "enqueue" /\ h'[p].result = "none"

C28_DmFailureIsSwallowed ==
    /\ [](\A p \in Procs :
            DmFailed(p) =>
              /\ messages[h[p].mid] # <<>>
              /\ h[p].pc = "done" =>
                   \/ h[p].result = "success"
                   \/ /\ h[p].result = "raised"
                      /\ h[p].kind = "acknowledgement"
                      /\ h[p].enqueueResult.ok
                      /\ h[p].error = "Failed to mark message as processed")
    /\ [][\A p \in Procs : C28_DmStep(p)]_vars

\* A handle that returned success after all three send attempts of its
\* DM had failed, with its Message row in the store.
C28_Witness ==
    \E p \in Procs :
        /\ DmFailed(p) /\ h[p].pc = "done" /\ h[p].result = "success"
        /\ ~h[p].dmFault
        /\ platform[h[p].outboundMessageId].attempts = maxAttempts
        /\ platform[h[p].outboundMessageId].delivered = 0
        /\ outbound[h[p].outboundMessageId].status = "failed"
        /\ messages[h[p].mid] # <<>>

\* The errors of the first two persistence steps: the upsert of the profile,
\* the insert of the message and the fetch of the stored row on a conflict.
PersistenceErrors ==
    {"Failed to upsert Instagram profile", "Failed to insert message",
     "Failed to fetch existing message"}

\* C29: when the store rejects the profile upsert or a call of the message
\* insert, handle raises that error in the same step, writing nothing; and
\* the invocation that raised it has created no verification token and no
\* outbound row, made no send call and no hand-off, and marked nothing.
C29_RejectedStep(p) ==
    (/\ h[p].op = "handle"
     /\ h[p].pc \in {"upsert", "insert", "fetch"}
     /\ h'[p] # h[p]
     /\ faults' # faults)
    => /\ h'[p].pc = "done"
       /\ h'[p].result = "raised"
       /\ h'[p].error =
            IF h[p].pc = "upsert" THEN "Failed to upsert Instagram profile"
            ELSE IF h[p].pc = "insert" THEN "Failed to insert message"
            ELSE "Failed to fetch existing message"
       /\ <<profiles, messages, tokens, outbound, platform, media>>' =
             <<profiles, messages, tokens, outbound, platform, media>>

C29_PersistenceErrorStopsHandle ==
    /\ [](\A p \in Procs :
            (/\ h[p].op = "handle"
             /\ h[p].error \in PersistenceErrors)
            => /\ h[p].pc = "done"
               /\ h[p].result = "raised"
               /\ tokens[h[p].inv] = NoToken
               /\ outbound[h[p].inv] = NoOutbound
               /\ platform[h[p].inv].attempts = 0
               /\ h[p].dm = "none"
               /\ ~h[p].enqueueResult.called)
    /\ [][\A p \in Procs : C29_RejectedStep(p)]_vars

\* A handle that raised the rejection of its message insert after its
\* profile upsert had been accepted.
C29_Witness ==
    \E p \in Procs :
        /\ h[p].op = "handle" /\ h[p].pc = "done"
        /\ h[p].result = "raised"
        /\ h[p].error = "Failed to insert message"
        /\ profiles[h[p].igId] # NoProfile
        /\ tokens[h[p].inv] = NoToken

\* C30 as stated: once a storeMediaItems call has ended it has not raised,
\* and exactly one row exists for each media item of its event.
C30_ExactlyOneRow ==
    \A p \in Procs :
        (h[p].op = "store-media" /\ h[p].pc = "done") =>
            /\ h[p].result = "returned"
            /\ \A k \in DOMAIN h[p].mediaItems :
                  Cardinality(MediaRows(media,
                                        h[p].profileRow.connected_user_id,
                                        h[p].mediaItems[k].media_id)) = 1

\* C31 as stated: extractMediaFromAttachments never throws, whatever value
\* of event.attachments it is given: every call returns a list.
C31_ExtractNeverThrows ==
    \A p \in Procs :
        (h[p].op = "extract" /\ h[p].pc = "done") =>
            h[p].result = "returned"

\* C32: storeMediaItems for a profile without connected_user_id is a no-op.
\* Such a call ends in the step that starts it, before the extraction and
\* before any query (it is never at the select or the insert of an item),
\* it returns, and the step leaves media_items and every other table as
\* they were.
C32_UnlinkedStep(p) ==
    (/\ h'[p] # h[p]
     /\ h'[p].op = "store-media"
     /\ h'[p].profileRow.connected_user_id = NULL) =>
        /\ h'[p].pc = "done" /\ h'[p].result = "returned"
        /\ media' = media
        /\ faults' = faults
        /\ UNCHANGED <<profiles, messages, tokens, outbound, platform>>

C32_UnlinkedStoreIsNoOp ==
    /\ [](\A p \in Procs :
            (/\ h[p].op = "store-media"
             /\ h[p].profileRow.connected_user_id = NULL) =>
                /\ h[p].pc = "done" /\ h[p].result = "returned"
                /\ h[p].item = 0 /\ h[p].mediaItems = <<>>)
    /\ [][\A p \in Procs : C32_UnlinkedStep(p)]_vars

\* A call for an unlinked profile whose event carried a reel has returned,
\* and the table holds no row of that reel.
C32_Witness ==
    \E p \in Procs :
        /\ h[p].op = "store-media" /\ h[p].pc = "done"
        /\ h[p].profileRow.connected_user_id = NULL
        /\ h[p].attachments = Attachments(<<ReelAttachment("r1")>>)
        /\ media = {}

\* C33: in the retry loop of sendVerificationDM / sendAcknowledgementDM the
\* wait after failed attempt k, for k = 1 and 2, is min(1000 * 2^(k-1),
\* 10000) ms: 1000 ms, then 2000 ms.  The waits an invocation has made
\* are, in order, the first of these: one per failed attempt when the next
\* send is due, and after the third failed attempt nothing is added, so an
\* invocation that has used its three attempts has waited 1000 and 2000.
C33_WaitOf(k) == IF 1000 * (2 ^ (k - 1)) < 10000
                 THEN 1000 * (2 ^ (k - 1)) ELSE 10000

C34_NeverLeftPending ==
    \A p \in Procs :
        (DmEnded(p) /\ h[p].outboundMessageId # 0) =>
            outbound[h[p].outboundMessageId].status \in {"sent", "failed"}

\* C34 amended: a DM function that returned left its row sent, with the
\* attempt count and the remote id of the send that succeeded.  One that
\* raised left the row failed, with attempts = 3 and the text of the error
\* it raised, unless the store rejected the row update of the catch block:
\* then it raised the store's error at once and the row is still pending,
\* its attempts one behind the sends that were made.
C34_TerminalUnlessUpdateRejected ==
    \A p \in Procs :
        (DmEnded(p) /\ h[p].outboundMessageId # 0) =>
            LET row == outbound[h[p].outboundMessageId]
                sends == platform[h[p].outboundMessageId].attempts
            IN IF h[p].dm = "returned"
               THEN /\ row.status = "sent"
                    /\ row.attempts = sends
                    /\ row.remote_message_id = h[p].remoteMessageId
               ELSE \/ /\ row.status = "failed"
                       /\ row.attempts = 3 /\ sends = 3
                       /\ row.error = h[p].dmError
                    \/ /\ row.status = "pending"
                       /\ h[p].dmFault
                       /\ h[p].dmError = "Failed to update outbound message"
                       /\ row.attempts = sends - 1

\* The second send of a DM function failed and the store rejected the row
\* update of its catch block: the function has raised the store's error,
\* and the row is pending with the error and the count of the first attempt.
C34_Witness ==
    \E p \in Procs :
        /\ h[p].dm = "raised" /\ h[p].outboundMessageId # 0
        /\ h[p].dmError = "Failed to update outbound message"
        /\ platform[h[p].outboundMessageId].attempts = 2
        /\ outbound[h[p].outboundMessageId].status = "pending"
        /\ outbound[h[p].outboundMessageId].error = "Instagram API error"
        /\ outbound[h[p].outboundMessageId].attempts = 1

\* C35: no step of handle changes connected_user_id or connected_at of a
\* stored profile, nor its username, which handle never supplies; the row
\* that the first upsert of an ig_id creates is not linked.
C35_ProfileStep(ig) ==
    IF profiles[ig].ig_id # NULL
    THEN /\ profiles'[ig].ig_id = profiles[ig].ig_id
         /\ profiles'[ig].connected_user_id = profiles[ig].connected_user_id
         /\ profiles'[ig].connected_at = profiles[ig].connected_at
         /\ profiles'[ig].username = profiles[ig].username
    ELSE profiles'[ig].ig_id # NULL =>
            /\ profiles'[ig].ig_id = ig
            /\ profiles'[ig].connected_user_id = NULL
            /\ profiles'[ig].connected_at = 0 - 1
            /\ profiles'[ig].username = NULL

C35_HandleKeepsLink == [][\A ig \in IgIds : C35_ProfileStep(ig)]_vars

\* A handle has upserted the profile of u2, which was linked to a1 with a
\* username: the row it got back and the stored row still carry the link.
C35_Witness ==
    \E p \in Procs :
        /\ h[p].op = "handle" /\ h[p].pc \notin {"idle", "upsert"}
        /\ h[p].profileRow.ig_id = "u2"
        /\ h[p].profileRow.connected_user_id = "a1"
        /\ h[p].profileRow.connected_at = 0
        /\ profiles["u2"] = h[p].profileRow
        /\ profiles["u2"].username = "name"

\* C36 as stated: every event that parseMessagingEvents returns has a mid,
\* a sender_ig_id and a recipient_ig_id that are present and non-empty, so
\* the required-field check of the queue consumer accepts the body decoded
\* from it.
C36_EveryEventAccepted ==
    Parsed =>
        \A i \in DOMAIN webhook.events :
            /\ webhook.events[i].mid \notin {NULL, ""}
            /\ webhook.events[i].sender_ig_id \notin {NULL, ""}
            /\ webhook.events[i].recipient_ig_id \notin {NULL, ""}
            /\ ~MissingRequiredField(QueueBodyOf(webhook.events[i]))

\* The webhook request that carried an event with this mid was answered 200.
Acknowledged(mid) ==
    /\ webhook.state = "answered" /\ webhook.status = 200
    /\ \E i \in DOMAIN webhook.events : webhook.events[i].mid = mid

\* C37 as stated: no message is lost.  Once a webhook request has been
\* answered 200, a message row exists, sooner or later, for the mid of
\* every event that was decoded from it.
C37_NoMessageLost ==
    \A mid \in Mids : Acknowledged(mid) ~> (messages[mid] # <<>>)

\* C38 as stated: consuming the token and linking the profile succeed or
\* fail together.  Whenever no request stands between its two updates, a
\* token that is marked consumed belongs to a profile that is linked, and a
\* request that was answered with the failure of the link, for a token no
\* request was confirmed for, has left the token unconsumed.
C38_ConsumeAndLinkTogether ==
    (\A p \in Procs : h[p].pc # "link") =>
        /\ \A t \in Ids :
              tokens[t].consumed =>
                  profiles[tokens[t].ig_id].connected_user_id # NULL
        /\ \A p \in Procs :
              (/\ h[p].op = "verify" /\ h[p].pc = "done"
               /\ h[p].result = "500"
               /\ h[p].tokenPlain \in Ids
               /\ confirmations[h[p].tokenPlain] = 0)
              => ~tokens[h[p].tokenPlain].consumed


\* ---------------------------------------------------------------- C39
\* C39: an event whose timestamp fails the normalisation of
\* insertMessageIfNotExists creates no Message row, is answered 400 (its
\* error being classified as permanent) and is delivered once only; the
\* timestamp 1700000000 in seconds and the timestamp 1700000000000 in
\* milliseconds are stored with the same received_at.  Stated for the
\* deliveries in which the store rejects no call.
C39_InvalidTimestampIsPermanent ==
    (/\ qmsg.body.kind = "object"
     /\ ~MissingRequiredField(qmsg.body)
     /\ faults = 0)
    => /\ (TimestampCheck(qmsg.body.timestamp) # "ok")
          => /\ messages[qmsg.body.mid] = <<>>
             /\ qmsg.state \in {"answered", "settled"}
                   => /\ qmsg.status = 400
                      /\ ~isRetryableError(qmsg.error)
             /\ qmsg.deliveries <= 1
       /\ (/\ qmsg.body.timestamp \in {SecondsText, MillisecondsText}
           /\ messages[qmsg.body.mid] # <<>>)
          => messages[qmsg.body.mid][1].received_at = 1700

====
